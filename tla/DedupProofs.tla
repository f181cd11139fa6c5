---------------------------- MODULE DedupProofs ----------------------------
(***************************************************************************)
(* Theorems about Dedup, for every number of threads, ids and entries,     *)
(* under the use the TransactionalProcessor makes of it (QuietSpec).       *)
(*                                                                         *)
(* The argument: while calls run, the chain only grows at its front, so    *)
(* what a thread has scanned stays scanned (Scans); when its               *)
(* compare_exchange finds the head it started from, the scan covers the    *)
(* whole chain and the id it inserts is new.  A cleanup runs alone, and    *)
(* its two pointers stand on neighbours of the chain (Cleans).             *)
(***************************************************************************)
EXTENDS Dedup, SequenceTheorems, TLAPS

\* The entry at place k of a chain, and NULL behind its end.
At(c, k) == IF k \in DOMAIN c THEN c[k] ELSE NULL

\* A thread owns an entry while it inserts, with the id it inserts, and nobody
\* else knows of that entry.
Owns == \A t \in Thread :
          /\ new_entry[t] # NULL <=> pc[t] # "idle" /\ op[t] = "insert"
          /\ new_entry[t] # NULL => /\ new_entry[t] \notin InChain
                                    /\ id[new_entry[t]] = eid[t]
                                    /\ \A u \in Thread \ {t} : new_entry[u] # new_entry[t]

\* Thread t started at place h of the chain, is at place c, and has not met its id.
Scanned(t, h, c) == /\ head[t] = At(chain, h)
                    /\ curr[t] = At(chain, c)
                    /\ \A k \in h .. c - 1 : id[chain[k]] # eid[t]

Scanning(t) == \E h \in 1 .. Len(chain) + 1 : \E c \in h .. Len(chain) + 1 : Scanned(t, h, c)

Scans == \A t \in Thread : pc[t] = "scan" => Scanning(t)

\* A cleanup runs alone, from the head of the chain to its end.
Cleans == /\ kpc # "idle" => Quiet
          /\ kpc = "heads" => khead = bucket
          /\ kpc = "middle" => \E i \in DOMAIN chain : /\ kprev = chain[i]
                                                       /\ kcurr = At(chain, i + 1)

DedupInv == TypeOK /\ BucketSound /\ NoLeak /\ Owns /\ Scans /\ Cleans

----------------------------------------------------------------------------
(* Chains *)

\* Places of a chain that passes no entry twice.
LEMMA AtFacts ==
    ASSUME NEW c \in Seq(Entry)
    PROVE  /\ Len(c) \in Nat /\ DOMAIN c = 1 .. Len(c)
           /\ \A k \in 1 .. Len(c) : At(c, k) = c[k] /\ c[k] \in Entry /\ c[k] # NULL
           /\ At(c, Len(c) + 1) = NULL
           /\ (\A i, j \in DOMAIN c : c[i] = c[j] => i = j)
                 => \A i, j \in 1 .. Len(c) + 1 : At(c, i) = At(c, j) => i = j
<1>1. Len(c) \in Nat /\ DOMAIN c = 1 .. Len(c)
  BY LenProperties
<1>2. \A k \in 1 .. Len(c) : c[k] \in Entry /\ c[k] # NULL
  BY ElementOfSeq, NullAssumption
<1>3. \A k \in 1 .. Len(c) : At(c, k) = c[k]
  BY <1>1 DEF At
<1>4. At(c, Len(c) + 1) = NULL
  BY <1>1 DEF At
<1>5. ASSUME \A i, j \in DOMAIN c : c[i] = c[j] => i = j,
             NEW i \in 1 .. Len(c) + 1, NEW j \in 1 .. Len(c) + 1, At(c, i) = At(c, j)
      PROVE  i = j
  <2>1. \A k \in 1 .. Len(c) + 1 : k \in 1 .. Len(c) \/ k = Len(c) + 1
    BY <1>1
  <2> QED
    BY <1>1, <1>2, <1>3, <1>4, <1>5, <2>1
<1> QED
  BY <1>1, <1>2, <1>3, <1>4, <1>5

\* Chain d is chain c with x in front.
InFront(x, c, d) == /\ d \in Seq(Entry) /\ Len(d) = Len(c) + 1 /\ DOMAIN d = 1 .. Len(c) + 1
                    /\ At(d, 1) = x /\ d[1] = x
                    /\ \A k \in 1 .. Len(c) + 1 : At(d, k + 1) = At(c, k)
                    /\ \A k \in 1 .. Len(c) : d[k + 1] = c[k]

LEMMA FrontFacts ==
    ASSUME NEW c \in Seq(Entry), NEW x \in Entry
    PROVE  InFront(x, c, <<x>> \o c)
<1>d. PICK d : d = <<x>> \o c
  OBVIOUS
<1>1. <<x>> \in Seq(Entry) /\ Len(<<x>>) = 1 /\ <<x>>[1] = x
  OBVIOUS
<1>2. Len(c) \in Nat /\ DOMAIN c = 1 .. Len(c)
  BY LenProperties
<1>3. /\ d \in Seq(Entry) /\ Len(d) = 1 + Len(c)
      /\ \A i \in 1 .. 1 + Len(c) : d[i] = IF i <= 1 THEN <<x>>[i] ELSE c[i - 1]
  BY <1>1, <1>d, ConcatProperties
<1>4. DOMAIN d = 1 .. Len(c) + 1 /\ Len(d) = Len(c) + 1
  BY <1>2, <1>3, LenProperties
<1>5. d[1] = x
  BY <1>1, <1>2, <1>3
<1>6. \A k \in 1 .. Len(c) : d[k + 1] = c[k]
  <2> SUFFICES ASSUME NEW k \in 1 .. Len(c) PROVE d[k + 1] = c[k]
    OBVIOUS
  <2>1. k + 1 \in 1 .. 1 + Len(c) /\ ~(k + 1 <= 1) /\ (k + 1) - 1 = k
    BY <1>2
  <2> QED
    BY <1>3, <2>1
<1>7. \A k \in 1 .. Len(c) + 1 : At(d, k + 1) = At(c, k)
  BY <1>2, <1>4, <1>6 DEF At
<1>8. InFront(x, c, d)
  BY <1>2, <1>3, <1>4, <1>5, <1>6, <1>7 DEF InFront, At
<1> QED
  BY <1>d, <1>8

\* The place a place has when place i is taken out.
Shift(i, j) == IF j < i THEN j ELSE j + 1

LEMMA ShiftNext ==
    ASSUME NEW n \in Nat, NEW i \in 1 .. n, NEW j \in 1 .. n - 1
    PROVE  /\ j + 1 \in 1 .. n
           /\ Shift(i, j + 1) = IF Shift(i, j) + 1 = i THEN i + 1 ELSE Shift(i, j) + 1
  BY DEF Shift

\* Chain d is chain c with the entry at place i taken out.
TakenOut(i, c, d) ==
    /\ d \in Seq(Entry) /\ Len(d) = Len(c) - 1 /\ DOMAIN d = 1 .. Len(c) - 1
    /\ \A j \in DOMAIN d : /\ Shift(i, j) \in DOMAIN c /\ Shift(i, j) # i
                           /\ d[j] = c[Shift(i, j)]
    /\ \A j, k \in DOMAIN d : Shift(i, j) = Shift(i, k) => j = k
    /\ \A k \in DOMAIN c : k # i => \E j \in DOMAIN d : k = Shift(i, j)
    /\ \A j \in 1 .. Len(c) : At(d, j) = At(c, Shift(i, j))

LEMMA WithoutFacts ==
    ASSUME chain \in Seq(Entry), \A i, j \in DOMAIN chain : chain[i] = chain[j] => i = j,
           NEW i \in DOMAIN chain, NEW d, d = Without(chain[i])
    PROVE  TakenOut(i, chain, d)
<1>1. Len(chain) \in Nat /\ DOMAIN chain = 1 .. Len(chain)
  BY LenProperties
<1>2. i = CHOOSE j \in DOMAIN chain : chain[j] = chain[i]
  OBVIOUS
<1>3. d = [j \in 1 .. Len(chain) - 1 |-> chain[Shift(i, j)]]
  BY <1>2 DEF Without, Shift
<1>4. DOMAIN d = 1 .. Len(chain) - 1
  BY <1>3
<1>5. \A j \in DOMAIN d : /\ Shift(i, j) \in DOMAIN chain /\ Shift(i, j) # i
                          /\ d[j] = chain[Shift(i, j)]
  BY <1>1, <1>3, <1>4 DEF Shift
<1>6. d \in Seq(Entry) /\ Len(d) = Len(chain) - 1
  <2>1. Len(chain) - 1 \in Nat
    BY <1>1
  <2>2. \A k \in 1 .. Len(chain) : chain[k] \in Entry
    BY ElementOfSeq
  <2>3. d \in [1 .. Len(chain) - 1 -> Entry]
    BY <1>1, <1>3, <1>4, <1>5, <2>2
  <2> QED
    BY <2>1, <2>3
<1>7. \A j, k \in DOMAIN d : Shift(i, j) = Shift(i, k) => j = k
  BY <1>1, <1>4 DEF Shift
<1>8. ASSUME NEW k \in DOMAIN chain, k # i PROVE \E j \in DOMAIN d : k = Shift(i, j)
  <2>1. CASE k < i
    <3>1. k \in DOMAIN d /\ k = Shift(i, k)
      BY <1>1, <1>4, <2>1 DEF Shift
    <3> QED
      BY <3>1
  <2>2. CASE k > i
    <3>1. k - 1 \in DOMAIN d /\ k = Shift(i, k - 1)
      BY <1>1, <1>4, <2>2 DEF Shift
    <3> QED
      BY <3>1
  <2> QED
    BY <1>1, <1>8, <2>1, <2>2
<1>9. ASSUME NEW j \in 1 .. Len(chain) PROVE At(d, j) = At(chain, Shift(i, j))
  <2>1. CASE j \in DOMAIN d
    BY <1>5, <2>1 DEF At
  <2>2. CASE j \notin DOMAIN d
    <3>1. j \notin DOMAIN d /\ Shift(i, j) \notin DOMAIN chain
      BY <1>1, <1>4, <2>2 DEF Shift
    <3> QED
      BY <3>1 DEF At
  <2> QED
    BY <2>1, <2>2
<1> QED
  BY <1>4, <1>5, <1>6, <1>7, <1>8, <1>9 DEF TakenOut

\* The links of a chain, in terms of its places.
Linked(b, links, c) == /\ b = At(c, 1)
                       /\ \A i \in DOMAIN c : links[c[i]] = At(c, i + 1)

LEMMA LinkedFacts ==
    ASSUME NEW c \in Seq(Entry), NEW b, NEW links
    PROVE  Linked(b, links, c)
             <=> /\ b = IF c = << >> THEN NULL ELSE c[1]
                 /\ \A i \in DOMAIN c : links[c[i]] = IF i < Len(c) THEN c[i + 1] ELSE NULL
<1>1. Len(c) \in Nat /\ DOMAIN c = 1 .. Len(c) /\ (c = << >> <=> Len(c) = 0)
  BY LenProperties, EmptySeq
<1>2. At(c, 1) = IF c = << >> THEN NULL ELSE c[1]
  BY <1>1 DEF At
<1>3. \A i \in DOMAIN c : At(c, i + 1) = IF i < Len(c) THEN c[i + 1] ELSE NULL
  BY <1>1 DEF At
<1> QED
  BY <1>2, <1>3 DEF Linked

\* What the proofs below use of the invariant.
LEMMA InvFacts ==
    ASSUME DedupInv
    PROVE  /\ chain \in Seq(Entry) /\ Len(chain) \in Nat /\ DOMAIN chain = 1 .. Len(chain)
           /\ Linked(bucket, next, chain)
           /\ \A i, j \in DOMAIN chain : chain[i] = chain[j] => i = j
           /\ \A i, j \in 1 .. Len(chain) + 1 : At(chain, i) = At(chain, j) => i = j
           /\ \A i \in DOMAIN chain : /\ chain[i] \in InChain /\ chain[i] \in Entry
                                      /\ At(chain, i) = chain[i] /\ chain[i] # NULL
           /\ At(chain, Len(chain) + 1) = NULL
           /\ \A k \in 1 .. Len(chain) + 1 : At(chain, k) # NULL <=> k \in DOMAIN chain
           /\ InChain \subseteq allocated /\ InChain \subseteq Entry
<1>1. chain \in Seq(Entry)
  BY DEF DedupInv, TypeOK
<1>2. \A i, j \in DOMAIN chain : chain[i] = chain[j] => i = j
  BY DEF DedupInv, BucketSound, IdsUnique
<1>3. /\ Len(chain) \in Nat /\ DOMAIN chain = 1 .. Len(chain)
      /\ \A k \in 1 .. Len(chain) :
           At(chain, k) = chain[k] /\ chain[k] \in Entry /\ chain[k] # NULL
      /\ At(chain, Len(chain) + 1) = NULL
      /\ \A i, j \in 1 .. Len(chain) + 1 : At(chain, i) = At(chain, j) => i = j
  BY <1>1, <1>2, AtFacts
<1>4. Linked(bucket, next, chain)
  BY <1>1, LinkedFacts DEF DedupInv, BucketSound, ChainIsLinked
<1>5. \A i \in DOMAIN chain : chain[i] \in InChain
  BY DEF InChain
<1>6. InChain \subseteq allocated /\ InChain \subseteq Entry
  BY <1>3 DEF DedupInv, NoLeak, InChain
<1>7. \A k \in 1 .. Len(chain) + 1 : At(chain, k) # NULL <=> k \in DOMAIN chain
  BY <1>3 DEF At
<1> QED
  BY <1>1, <1>2, <1>3, <1>4, <1>5, <1>6, <1>7

LEMMA InitDedupInv == Init => DedupInv
<1> SUFFICES ASSUME Init PROVE DedupInv
  OBVIOUS
<1>1. MAX_RETRIES \in Nat \ {0} /\ MAX_HEAD_RETRIES \in Nat \ {0}
  BY RetryAssumption
<1>2. chain \in Seq(Entry) /\ Len(chain) = 0 /\ DOMAIN chain = {}
  BY EmptySeq DEF Init
<1>3. retry_count \in [Thread -> 0 .. MAX_RETRIES - 1] /\ head_retries \in 0 .. MAX_HEAD_RETRIES
  BY <1>1 DEF Init
<1>4. TypeOK
  BY <1>2, <1>3 DEF Init, TypeOK
<1>5. BucketSound
  BY <1>2 DEF Init, BucketSound, ChainIsLinked, IdsUnique
<1>6. InChain = {}
  BY <1>2 DEF InChain
<1>7. NoLeak
  BY <1>6 DEF Init, NoLeak
<1>8. Owns /\ Scans /\ Cleans
  BY DEF Init, Owns, Scans, Cleans
<1> QED
  BY <1>4, <1>5, <1>7, <1>8 DEF DedupInv

----------------------------------------------------------------------------
(* Steps that leave the chain as it is *)

LEMMA ChainKept ==
    ASSUME DedupInv, UNCHANGED <<chain, bucket>>,
           \A x \in InChain : id'[x] = id[x] /\ next'[x] = next[x]
    PROVE  BucketSound'
<1>1. \A i \in DOMAIN chain : /\ id'[chain[i]] = id[chain[i]]
                              /\ next'[chain[i]] = next[chain[i]]
  BY DEF InChain
<1>2. ChainIsLinked'
  BY <1>1 DEF DedupInv, BucketSound, ChainIsLinked
<1>3. IdsUnique'
  BY <1>1 DEF DedupInv, BucketSound, IdsUnique
<1> QED
  BY <1>2, <1>3 DEF BucketSound

LEMMA ScanKept ==
    ASSUME DedupInv, chain' = chain, \A x \in InChain : id'[x] = id[x],
           NEW t \in Thread, Scanning(t), head'[t] = head[t], curr'[t] = curr[t],
           eid'[t] = eid[t]
    PROVE  Scanning(t)'
<1>1. PICK h \in 1 .. Len(chain) + 1 : \E c \in h .. Len(chain) + 1 : Scanned(t, h, c)
  BY DEF Scanning
<1>2. PICK c \in h .. Len(chain) + 1 : Scanned(t, h, c)
  BY <1>1
<1>3. \A k \in h .. c - 1 : k \in DOMAIN chain
  BY InvFacts
<1>4. \A k \in h .. c - 1 : id'[chain'[k]] = id[chain[k]]
  BY <1>3 DEF InChain
<1>5. Scanned(t, h, c)'
  BY <1>2, <1>4 DEF Scanned, At
<1> QED
  BY <1>5 DEF Scanning

\* A thread's entry is allocated, off the chain, and its own.
LEMMA OwnEntry ==
    ASSUME DedupInv, NEW t \in Thread, pc[t] # "idle", op[t] = "insert"
    PROVE  /\ new_entry[t] \in Entry /\ new_entry[t] # NULL /\ new_entry[t] \in allocated
           /\ new_entry[t] \notin InChain /\ id[new_entry[t]] = eid[t]
           /\ \A u \in Thread \ {t} : new_entry[u] # new_entry[t]
  BY DEF DedupInv, TypeOK, Owns, NoLeak

\* The threads other than t keep what they know.
LEMMA OthersScan ==
    ASSUME DedupInv, chain' = chain, \A x \in InChain : id'[x] = id[x], NEW t \in Thread,
           \A u \in Thread \ {t} : /\ pc'[u] = pc[u] /\ head'[u] = head[u]
                                   /\ curr'[u] = curr[u] /\ eid'[u] = eid[u],
           pc'[t] = "scan" => Scanning(t)'
    PROVE  Scans'
<1>1. ASSUME NEW u \in Thread \ {t}, pc'[u] = "scan" PROVE Scanning(u)'
  <2>1. Scanning(u)
    BY <1>1 DEF DedupInv, Scans
  <2> QED
    BY <1>1, <2>1, ScanKept
<1> QED
  BY <1>1 DEF Scans

\* A call of thread t returns without having changed the chain, and its entry,
\* if it has one, is deleted.
LEMMA ReturnKeeps ==
    ASSUME DedupInv, NEW t \in Thread, NEW v \in BOOLEAN, pc[t] # "idle",
           Return(t, v), Delete(new_entry[t], next), UNCHANGED <<bucket, cleanVars, chain>>
    PROVE  DedupInv'
<1> DEFINE e == new_entry[t]
<1>1. e \notin InChain /\ \A u \in Thread \ {t} : e # NULL => new_entry[u] # e
  BY InvFacts, NullAssumption DEF DedupInv, Owns
<1>2. \A x \in InChain : x \in Entry /\ id'[x] = id[x] /\ next'[x] = next[x]
  BY <1>1, InvFacts DEF Delete
<1>3. BucketSound'
  BY <1>2, ChainKept
<1>4. TypeOK'
  <2>1. 0 \in 0 .. MAX_RETRIES - 1
    BY RetryAssumption
  <2> QED
    BY <2>1 DEF DedupInv, TypeOK, Return, Delete, cleanVars
<1>5. /\ new_entry'[t] = NULL /\ pc'[t] = "idle"
      /\ \A u \in Thread \ {t} : /\ new_entry'[u] = new_entry[u] /\ pc'[u] = pc[u]
                                 /\ head'[u] = head[u] /\ curr'[u] = curr[u]
                                 /\ eid'[u] = eid[u] /\ op'[u] = op[u]
  BY DEF DedupInv, TypeOK, Return
<1>6. InChain' = InChain
  BY DEF InChain
<1>7. NoLeak'
  <2>1. \A x : x \in {new_entry'[u] : u \in Thread} \ {NULL}
                 <=> x \in ({new_entry[u] : u \in Thread} \ {NULL}) /\ x # e
    BY <1>1, <1>5
  <2> QED
    BY <1>1, <1>6, <2>1 DEF DedupInv, NoLeak, Delete
<1>8. Owns'
  <2>1. \A u \in Thread \ {t} : new_entry[u] # NULL => id'[new_entry[u]] = id[new_entry[u]]
    BY <1>1 DEF DedupInv, TypeOK, Delete
  <2> QED
    BY <1>5, <1>6, <2>1 DEF DedupInv, Owns
<1>9. Scans'
  BY <1>2, <1>5, OthersScan
<1>10. Cleans'
  <2>1. kpc = "idle" /\ kpc' = "idle"
    BY DEF DedupInv, Cleans, Quiet, cleanVars
  <2> QED
    BY <2>1 DEF Cleans
<1> QED
  BY <1>3, <1>4, <1>7, <1>8, <1>9, <1>10 DEF DedupInv

----------------------------------------------------------------------------
(* insert() and is_duplicate() *)

LEMMA CallKeeps ==
    ASSUME DedupInv, NEW t \in Thread, kpc = "idle", Call(t)
    PROVE  DedupInv'
<1>c. Cleans'
  BY DEF Call, Insert, IsDuplicate, cleanVars, Cleans
<1>1. CASE Insert(t)
  <2>1. PICK i \in Id, e \in Entry \ allocated :
          /\ allocated' = allocated \cup {e}
          /\ id' = [id EXCEPT ![e] = i]
          /\ next' = [next EXCEPT ![e] = NULL]
          /\ eid' = [eid EXCEPT ![t] = i]
          /\ new_entry' = [new_entry EXCEPT ![t] = e]
    BY <1>1 DEF Insert
  <2>2. /\ e \notin InChain /\ e # NULL /\ new_entry[t] = NULL
        /\ \A u \in Thread : new_entry[u] # e
    BY <1>1, <2>1, InvFacts, NullAssumption DEF Insert, DedupInv, NoLeak, Owns
  <2>3. \A x \in InChain : x \in Entry /\ id'[x] = id[x] /\ next'[x] = next[x]
    BY <2>1, <2>2, InvFacts DEF DedupInv, TypeOK
  <2>4. BucketSound' /\ InChain' = InChain
    BY <1>1, <2>3, ChainKept DEF Insert, InChain
  <2>5. TypeOK'
    BY <1>1, <2>1 DEF Insert, cleanVars, DedupInv, TypeOK
  <2>6. /\ new_entry'[t] = e /\ pc'[t] = "load" /\ op'[t] = "insert" /\ eid'[t] = i
        /\ \A u \in Thread \ {t} : /\ new_entry'[u] = new_entry[u] /\ pc'[u] = pc[u]
                                   /\ head'[u] = head[u] /\ curr'[u] = curr[u]
                                   /\ eid'[u] = eid[u] /\ op'[u] = op[u]
    BY <1>1, <2>1 DEF Insert, DedupInv, TypeOK
  <2>7. NoLeak'
    <3>1. \A x : x \in {new_entry'[u] : u \in Thread} \ {NULL}
                   <=> x \in {new_entry[u] : u \in Thread} \ {NULL} \/ x = e
      BY <2>2, <2>6
    <3> QED
      BY <2>1, <2>4, <3>1 DEF DedupInv, NoLeak
  <2>8. Owns'
    <3>1. id'[e] = i /\ \A u \in Thread \ {t} :
             new_entry[u] # NULL => id'[new_entry[u]] = id[new_entry[u]]
      BY <2>1, <2>2 DEF DedupInv, TypeOK
    <3> QED
      BY <2>2, <2>4, <2>6, <3>1 DEF DedupInv, Owns
  <2>9. Scans'
    BY <1>1, <2>3, <2>6, OthersScan DEF Insert
  <2> QED
    BY <1>c, <2>4, <2>5, <2>7, <2>8, <2>9 DEF DedupInv
<1>2. CASE IsDuplicate(t)
  <2>1. PICK i \in Id : eid' = [eid EXCEPT ![t] = i]
    BY <1>2 DEF IsDuplicate
  <2>2. BucketSound' /\ InChain' = InChain
    BY <1>2, ChainKept DEF IsDuplicate, heap, InChain
  <2>3. TypeOK'
    BY <1>2, <2>1 DEF IsDuplicate, heap, cleanVars, DedupInv, TypeOK
  <2>4. NoLeak'
    BY <1>2, <2>2 DEF IsDuplicate, heap, DedupInv, NoLeak
  <2>5. /\ new_entry'[t] = NULL /\ pc'[t] = "load" /\ op'[t] = "is_duplicate"
        /\ \A u \in Thread \ {t} : /\ new_entry'[u] = new_entry[u] /\ pc'[u] = pc[u]
                                   /\ head'[u] = head[u] /\ curr'[u] = curr[u]
                                   /\ eid'[u] = eid[u] /\ op'[u] = op[u]
    BY <1>2, <2>1 DEF IsDuplicate, DedupInv, TypeOK, Owns
  <2>6. Owns'
    BY <1>2, <2>2, <2>5 DEF IsDuplicate, heap, DedupInv, Owns
  <2>7. Scans'
    BY <1>2, <2>5, OthersScan DEF IsDuplicate, heap
  <2> QED
    BY <1>c, <2>2, <2>3, <2>4, <2>6, <2>7 DEF DedupInv
<1> QED
  BY <1>1, <1>2 DEF Call

\* A scan that goes on, or starts again.
LEMMA ScanKeeps ==
    ASSUME DedupInv, NEW t \in Thread, Load(t) \/ ScanNext(t) \/ CasRetry(t)
    PROVE  DedupInv'
<1>p. pc[t] \in {"load", "scan"} /\ kpc = "idle" /\ kpc' = "idle"
  BY DEF Load, ScanNext, CasRetry, CasFails, DedupInv, Cleans, Quiet, cleanVars
<1>c. Cleans'
  BY <1>p DEF Cleans
<1>n. next' = next \/ (CasRetry(t) /\ next' = [next EXCEPT ![new_entry[t]] = head[t]])
  BY DEF Load, ScanNext, CasRetry, heap
<1>x. \A x \in InChain : x \in Entry /\ id'[x] = id[x] /\ next'[x] = next[x]
  <2>1. id' = id
    BY DEF Load, ScanNext, CasRetry, heap
  <2>2. CASE next' = next
    BY <2>1, <2>2, InvFacts
  <2>3. CASE CasRetry(t) /\ next' = [next EXCEPT ![new_entry[t]] = head[t]]
    <3>1. new_entry[t] \notin InChain
      BY <2>3, OwnEntry DEF CasRetry, CasFails
    <3> QED
      BY <2>1, <2>3, <3>1, InvFacts DEF DedupInv, TypeOK
  <2> QED
    BY <1>n, <2>2, <2>3
<1>1. BucketSound' /\ InChain' = InChain
  BY <1>x, ChainKept DEF Load, ScanNext, CasRetry, InChain
<1>2. UNCHANGED <<allocated, id, new_entry, eid, op>>
  BY DEF Load, ScanNext, CasRetry, heap
<1>3. NoLeak'
  BY <1>1, <1>2 DEF DedupInv, NoLeak
<1>4. /\ pc'[t] \in {"load", "scan"}
      /\ \A u \in Thread \ {t} : /\ pc'[u] = pc[u] /\ head'[u] = head[u] /\ curr'[u] = curr[u]
  BY DEF Load, ScanNext, CasRetry, DedupInv, TypeOK
<1>5. Owns'
  BY <1>p, <1>1, <1>2, <1>4 DEF DedupInv, Owns
<1>6. TypeOK'
  <2>1. CASE Load(t)
    BY <2>1 DEF Load, heap, cleanVars, DedupInv, TypeOK
  <2>2. CASE ScanNext(t)
    <3>1. curr[t] \in Entry
      BY <2>2 DEF ScanNext, DedupInv, TypeOK
    <3>2. curr' \in [Thread -> Entry \cup {NULL}]
      BY <2>2, <3>1 DEF ScanNext, DedupInv, TypeOK
    <3> QED
      BY <2>2, <3>2 DEF ScanNext, heap, cleanVars, DedupInv, TypeOK
  <2>3. CASE CasRetry(t)
    <3>1. next' \in [Entry -> Entry \cup {NULL}]
      BY <2>3 DEF CasRetry, DedupInv, TypeOK
    <3>2. MAX_RETRIES \in Nat
      BY RetryAssumption
    <3>3. retry_count' \in [Thread -> 0 .. MAX_RETRIES - 1]
      BY <2>3, <3>2 DEF CasRetry, DedupInv, TypeOK
    <3> QED
      BY <2>3, <3>1, <3>3 DEF CasRetry, cleanVars, DedupInv, TypeOK
  <2> QED
    BY <2>1, <2>2, <2>3
<1>7. pc'[t] = "scan" => Scanning(t)'
  <2>1. CASE Load(t)
    <3>1. /\ head'[t] = At(chain, 1) /\ curr'[t] = At(chain, 1) /\ chain' = chain
      BY <2>1, InvFacts DEF Load, DedupInv, TypeOK, Linked
    <3>2. 1 \in 1 .. Len(chain) + 1 /\ 1 .. 1 - 1 = {}
      BY InvFacts
    <3>3. Scanned(t, 1, 1)'
      BY <3>1, <3>2 DEF Scanned, At
    <3> QED
      BY <3>1, <3>2, <3>3 DEF Scanning
  <2>2. CASE ScanNext(t)
    <3>1. /\ chain' = chain /\ head'[t] = head[t] /\ curr'[t] = next[curr[t]]
          /\ pc[t] = "scan" /\ curr[t] # NULL /\ id[curr[t]] # eid[t]
      BY <2>2 DEF ScanNext, DedupInv, TypeOK
    <3>2. PICK h \in 1 .. Len(chain) + 1 : \E c \in h .. Len(chain) + 1 : Scanned(t, h, c)
      BY <3>1 DEF DedupInv, Scans, Scanning
    <3>3. PICK c \in h .. Len(chain) + 1 : Scanned(t, h, c)
      BY <3>2
    <3>4. c \in DOMAIN chain /\ curr[t] = chain[c]
      BY <3>1, <3>3, InvFacts DEF Scanned
    <3>5. curr'[t] = At(chain, c + 1)
      BY <3>1, <3>4, InvFacts DEF Linked
    <3>6. \A k \in h .. (c + 1) - 1 : id[chain[k]] # eid[t]
      BY <3>1, <3>3, <3>4, InvFacts DEF Scanned
    <3>7. Scanned(t, h, c + 1)'
      BY <1>2, <3>1, <3>3, <3>5, <3>6 DEF Scanned, At
    <3>8. c + 1 \in h .. Len(chain) + 1
      BY <3>4, InvFacts
    <3> QED
      BY <3>1, <3>7, <3>8 DEF Scanning
  <2>3. CASE CasRetry(t)
    BY <2>3 DEF CasRetry, DedupInv, TypeOK
  <2> QED
    BY <2>1, <2>2, <2>3
<1>8. Scans'
  <2>1. chain' = chain
    BY DEF Load, ScanNext, CasRetry
  <2> QED
    BY <1>x, <1>2, <1>4, <1>7, <2>1, OthersScan
<1> QED
  BY <1>c, <1>1, <1>3, <1>5, <1>6, <1>8 DEF DedupInv

\* The compare_exchange that succeeds.
LEMMA CasKeeps ==
    ASSUME DedupInv, NEW t \in Thread, CasDone(t)
    PROVE  DedupInv'
<1>p. pc[t] = "scan" /\ curr[t] = NULL /\ op[t] = "insert" /\ bucket = head[t]
  BY DEF CasDone
<1>k. kpc = "idle" /\ kpc' = "idle"
  BY <1>p DEF CasDone, DedupInv, Cleans, Quiet, cleanVars
<1>c. Cleans'
  BY <1>k DEF Cleans
<1>e. PICK e : e = new_entry[t]
  OBVIOUS
<1>1. /\ e \in Entry /\ e # NULL /\ e \in allocated /\ e \notin InChain /\ id[e] = eid[t]
      /\ \A u \in Thread \ {t} : new_entry[u] # e
  BY <1>p, <1>e, OwnEntry
<1>2. /\ chain' = <<e>> \o chain /\ bucket' = e /\ id' = id /\ allocated' = allocated
      /\ next' = [next EXCEPT ![e] = bucket]
  BY <1>e, <1>p DEF CasDone
<1>3. /\ chain \in Seq(Entry) /\ Len(chain) \in Nat /\ DOMAIN chain = 1 .. Len(chain)
      /\ Linked(bucket, next, chain)
  BY InvFacts
<1>4. /\ chain' \in Seq(Entry) /\ Len(chain') = Len(chain) + 1
      /\ DOMAIN chain' = 1 .. Len(chain) + 1
      /\ At(chain', 1) = e /\ chain'[1] = e
      /\ \A k \in 1 .. Len(chain) + 1 : At(chain', k + 1) = At(chain, k)
      /\ \A k \in 1 .. Len(chain) : chain'[k + 1] = chain[k]
  <2>1. e \in Entry /\ chain \in Seq(Entry) /\ chain' = <<e>> \o chain
    BY <1>1, <1>2, <1>3
  <2>2. InFront(e, chain, chain')
    BY <2>1, FrontFacts
  <2> QED
    BY <2>2 DEF InFront
<1>5. \A k \in DOMAIN chain' : k = 1 \/ (k - 1 \in DOMAIN chain /\ chain'[k] = chain[k - 1])
  <2> SUFFICES ASSUME NEW k \in DOMAIN chain', k # 1
               PROVE  k - 1 \in DOMAIN chain /\ chain'[k] = chain[k - 1]
    OBVIOUS
  <2>1. k - 1 \in 1 .. Len(chain) /\ (k - 1) + 1 = k
    BY <1>3, <1>4
  <2> QED
    BY <1>3, <1>4, <2>1
<1>6. InChain' = InChain \cup {e}
  <2>1. \A x : x \in InChain' => x \in InChain \cup {e}
    BY <1>4, <1>5 DEF InChain
  <2>2. e \in InChain'
    BY <1>3, <1>4 DEF InChain
  <2>3. ASSUME NEW x \in InChain PROVE x \in InChain'
    <3>1. PICK k \in DOMAIN chain : x = chain[k]
      BY <2>3 DEF InChain
    <3>2. k + 1 \in DOMAIN chain' /\ chain'[k + 1] = x
      BY <1>3, <1>4, <3>1
    <3> QED
      BY <3>2 DEF InChain
  <2> QED
    BY <2>1, <2>2, <2>3
<1>7. \A k \in DOMAIN chain : id[chain[k]] # id[e]
  <2>1. PICK h \in 1 .. Len(chain) + 1 : \E c \in h .. Len(chain) + 1 : Scanned(t, h, c)
    BY <1>p DEF DedupInv, Scans, Scanning
  <2>2. PICK c \in h .. Len(chain) + 1 : Scanned(t, h, c)
    BY <2>1
  <2>3. h = 1
    <3>1. At(chain, h) = At(chain, 1)
      BY <1>p, <1>3, <2>2 DEF Scanned, Linked
    <3>2. 1 \in 1 .. Len(chain) + 1
      BY <1>3
    <3> QED
      BY <3>1, <3>2, InvFacts
  <2>4. c = Len(chain) + 1
    <3>1. c \in 1 .. Len(chain) + 1 /\ c \notin DOMAIN chain
      BY <1>p, <1>3, <2>2, <2>3, InvFacts DEF Scanned
    <3> QED
      BY <1>3, <3>1
  <2>5. \A k \in 1 .. (Len(chain) + 1) - 1 : id[chain[k]] # eid[t]
    BY <2>2, <2>3, <2>4 DEF Scanned
  <2> QED
    BY <1>1, <1>3, <2>5
<1>8. BucketSound'
  <2>1. IdsUnique'
    <3> SUFFICES ASSUME NEW i \in DOMAIN chain', NEW j \in DOMAIN chain',
                        id[chain'[i]] = id[chain'[j]]
                 PROVE  i = j
      BY <1>2 DEF IdsUnique
    <3>1. CASE i = 1 /\ j = 1
      BY <3>1
    <3>2. CASE i = 1 /\ j # 1
      BY <1>4, <1>5, <1>7, <3>2
    <3>3. CASE i # 1 /\ j = 1
      BY <1>4, <1>5, <1>7, <3>3
    <3>4. CASE i # 1 /\ j # 1
      <4>1. /\ i - 1 \in DOMAIN chain /\ j - 1 \in DOMAIN chain
            /\ id[chain[i - 1]] = id[chain[j - 1]]
        BY <1>5, <3>4
      <4>2. i - 1 = j - 1
        BY <4>1 DEF DedupInv, BucketSound, IdsUnique
      <4> QED
        BY <1>3, <1>4, <4>2
    <3> QED
      BY <3>1, <3>2, <3>3, <3>4
  <2>2. ASSUME NEW i \in DOMAIN chain' PROVE next'[chain'[i]] = At(chain', i + 1)
    <3>1. CASE i = 1
      <4>1. next'[e] = bucket
        BY <1>1, <1>2 DEF DedupInv, TypeOK
      <4>2. At(chain', 1 + 1) = At(chain, 1)
        BY <1>3, <1>4
      <4> QED
        BY <1>3, <1>4, <3>1, <4>1, <4>2 DEF Linked
    <3>2. CASE i # 1
      <4>1. i - 1 \in DOMAIN chain /\ chain'[i] = chain[i - 1] /\ (i - 1) + 1 = i
        BY <1>3, <1>4, <1>5, <3>2
      <4>2. chain[i - 1] # e
        BY <1>1, <4>1 DEF InChain
      <4>3. next'[chain[i - 1]] = next[chain[i - 1]]
        BY <1>2, <1>3, <4>1, <4>2, InvFacts DEF DedupInv, TypeOK
      <4>4. next[chain[i - 1]] = At(chain, i)
        BY <1>3, <4>1 DEF Linked
      <4>5. At(chain', i + 1) = At(chain, i)
        BY <1>4
      <4> QED
        BY <4>1, <4>3, <4>4, <4>5
    <3> QED
      BY <3>1, <3>2
  <2>3. Linked(bucket', next', chain')
    BY <1>2, <1>4, <2>2 DEF Linked
  <2>4. ChainIsLinked'
    BY <1>4, <2>3, LinkedFacts DEF ChainIsLinked
  <2> QED
    BY <2>1, <2>4 DEF BucketSound
<1>9. /\ new_entry'[t] = NULL /\ pc'[t] = "idle"
      /\ \A u \in Thread \ {t} : /\ new_entry'[u] = new_entry[u] /\ pc'[u] = pc[u]
                                 /\ head'[u] = head[u] /\ curr'[u] = curr[u]
                                 /\ eid'[u] = eid[u] /\ op'[u] = op[u]
  BY DEF CasDone, Return, DedupInv, TypeOK
<1>10. NoLeak'
  <2>1. \A x : x \in {new_entry'[u] : u \in Thread} \ {NULL}
                 <=> x \in ({new_entry[u] : u \in Thread} \ {NULL}) /\ x # e
    BY <1>1, <1>e, <1>9
  <2>2. e \in allocated
    BY <1>1
  <2> QED
    BY <1>2, <1>6, <2>1, <2>2 DEF DedupInv, NoLeak
<1>11. Owns'
  BY <1>1, <1>2, <1>6, <1>9 DEF DedupInv, Owns
<1>12. TypeOK'
  <2>1. 0 \in 0 .. MAX_RETRIES - 1
    BY RetryAssumption
  <2>2. next' \in [Entry -> Entry \cup {NULL}] /\ bucket' \in Entry /\ chain' \in Seq(Entry)
    BY <1>1, <1>2, <1>4 DEF DedupInv, TypeOK
  <2> QED
    BY <2>1, <2>2 DEF CasDone, Return, cleanVars, DedupInv, TypeOK
<1>13. ASSUME NEW u \in Thread \ {t}, pc'[u] = "scan" PROVE Scanning(u)'
  <2>1. Scanning(u)
    BY <1>9, <1>13 DEF DedupInv, Scans
  <2>2. PICK h \in 1 .. Len(chain) + 1 : \E c \in h .. Len(chain) + 1 : Scanned(u, h, c)
    BY <2>1 DEF Scanning
  <2>3. PICK c \in h .. Len(chain) + 1 : Scanned(u, h, c)
    BY <2>2
  <2>4. At(chain', h + 1) = head'[u] /\ At(chain', c + 1) = curr'[u]
    <3>1. c \in 1 .. Len(chain) + 1
      BY <1>3
    <3> QED
      BY <1>4, <1>9, <2>3, <3>1 DEF Scanned
  <2>5. ASSUME NEW k \in h + 1 .. (c + 1) - 1 PROVE id'[chain'[k]] # eid'[u]
    <3>1. k - 1 \in h .. c - 1 /\ k - 1 \in 1 .. Len(chain) /\ (k - 1) + 1 = k
      BY <1>3
    <3>2. chain'[k] = chain[k - 1]
      BY <1>4, <3>1
    <3> QED
      BY <1>2, <1>9, <2>3, <3>1, <3>2 DEF Scanned
  <2>6. Scanned(u, h + 1, c + 1)'
    BY <2>4, <2>5 DEF Scanned, At
  <2>7. h + 1 \in 1 .. Len(chain') + 1 /\ c + 1 \in h + 1 .. Len(chain') + 1
    BY <1>3, <1>4
  <2> QED
    BY <2>6, <2>7 DEF Scanning
<1>14. Scans'
  BY <1>9, <1>13 DEF Scans
<1> QED
  BY <1>c, <1>8, <1>10, <1>11, <1>12, <1>14 DEF DedupInv

LEMMA StepKeeps ==
    ASSUME DedupInv, NEW t \in Thread, Step(t)
    PROVE  DedupInv'
<1>1. CASE Load(t) \/ ScanNext(t) \/ CasRetry(t)
  BY <1>1, ScanKeeps
<1>2. CASE ScanFound(t)
  <2>1. pc[t] # "idle" /\ (op[t] = "is_duplicate") \in BOOLEAN
    BY <1>2 DEF ScanFound
  <2> QED
    BY <1>2, <2>1, ReturnKeeps DEF ScanFound
<1>3. CASE CasGiveUp(t)
  <2>1. pc[t] # "idle" /\ FALSE \in BOOLEAN
    BY <1>3 DEF CasGiveUp, CasFails
  <2> QED
    BY <1>3, <2>1, ReturnKeeps DEF CasGiveUp
<1>4. CASE NotFound(t)
  <2>1. pc[t] # "idle" /\ new_entry[t] = NULL
    BY <1>4 DEF NotFound, DedupInv, Owns
  <2>2. NULL \notin allocated /\ NULL \notin old
    BY NullAssumption DEF DedupInv, TypeOK
  <2>3. UNCHANGED <<allocated, id, next, old, bucket, cleanVars, chain>>
    BY <1>4 DEF NotFound, heap
  <2>4. allocated' = allocated \ {NULL} /\ old' = old \ {NULL}
    BY <2>2, <2>3
  <2>5. \A x \in Entry : x # NULL
    BY NullAssumption
  <2>6. /\ id' = [x \in Entry |-> IF x = NULL THEN NULL ELSE id[x]]
        /\ next' = [x \in Entry |-> IF x = NULL THEN NULL ELSE next[x]]
    BY <2>3, <2>5 DEF DedupInv, TypeOK
  <2>7. Delete(new_entry[t], next)
    BY <2>1, <2>4, <2>6 DEF Delete
  <2>8. Return(t, FALSE) /\ FALSE \in BOOLEAN
    BY <1>4 DEF NotFound
  <2> QED
    BY <2>1, <2>3, <2>7, <2>8, ReturnKeeps
<1>5. CASE CasDone(t)
  BY <1>5, CasKeeps
<1> QED
  BY <1>1, <1>2, <1>3, <1>4, <1>5 DEF Step

----------------------------------------------------------------------------
(* cleanup() *)

\* The entry at place i unlinked and deleted, while no call runs.
LEMMA Unlink ==
    ASSUME DedupInv, Quiet, UNCHANGED threadVars, NEW i \in DOMAIN chain, NEW links,
           links \in [Entry -> Entry \cup {NULL}],
           \A k \in DOMAIN chain : links[chain[k]] = IF k + 1 = i THEN At(chain, i + 1)
                                                     ELSE At(chain, k + 1),
           Delete(chain[i], links), chain' = Without(chain[i]),
           bucket' = IF i = 1 THEN At(chain, 2) ELSE bucket
    PROVE  /\ BucketSound' /\ NoLeak' /\ Owns' /\ Scans'
           /\ InChain' = InChain \ {chain[i]}
           /\ chain' \in Seq(Entry) /\ Len(chain') = Len(chain) - 1
           /\ DOMAIN chain' = 1 .. Len(chain) - 1
           /\ \A j \in 1 .. Len(chain) : At(chain', j) = At(chain, Shift(i, j))
<1>1. /\ chain \in Seq(Entry) /\ Len(chain) \in Nat /\ DOMAIN chain = 1 .. Len(chain)
      /\ Linked(bucket, next, chain)
      /\ \A k, j \in DOMAIN chain : chain[k] = chain[j] => k = j
      /\ \A k \in DOMAIN chain : chain[k] \in InChain /\ chain[k] \in Entry /\ chain[k] # NULL
  BY InvFacts
<1>2. /\ chain' \in Seq(Entry) /\ Len(chain') = Len(chain) - 1
      /\ DOMAIN chain' = 1 .. Len(chain) - 1
      /\ \A j \in DOMAIN chain' : /\ Shift(i, j) \in DOMAIN chain /\ Shift(i, j) # i
                                  /\ chain'[j] = chain[Shift(i, j)]
      /\ \A j, k \in DOMAIN chain' : Shift(i, j) = Shift(i, k) => j = k
      /\ \A k \in DOMAIN chain : k # i => \E j \in DOMAIN chain' : k = Shift(i, j)
      /\ \A j \in 1 .. Len(chain) : At(chain', j) = At(chain, Shift(i, j))
  <2>1. TakenOut(i, chain, chain')
    BY <1>1, WithoutFacts
  <2> QED
    BY <2>1 DEF TakenOut
<1>3. InChain' = InChain \ {chain[i]}
  <2>1. ASSUME NEW x \in InChain' PROVE x \in InChain /\ x # chain[i]
    <3>1. PICK j \in DOMAIN chain' : x = chain'[j]
      BY <2>1 DEF InChain
    <3> QED
      BY <1>1, <1>2, <3>1 DEF InChain
  <2>2. ASSUME NEW x \in InChain, x # chain[i] PROVE x \in InChain'
    <3>1. PICK k \in DOMAIN chain : x = chain[k]
      BY <2>2 DEF InChain
    <3>2. PICK j \in DOMAIN chain' : k = Shift(i, j)
      BY <1>2, <2>2, <3>1
    <3> QED
      BY <1>2, <3>1, <3>2 DEF InChain
  <2> QED
    BY <2>1, <2>2
<1>4. \A x \in Entry : x # chain[i] => id'[x] = id[x] /\ next'[x] = links[x]
  BY DEF Delete
<1>5. \A j \in DOMAIN chain' : /\ chain'[j] \in Entry /\ chain'[j] # chain[i]
                               /\ id'[chain'[j]] = id[chain[Shift(i, j)]]
                               /\ next'[chain'[j]] = links[chain[Shift(i, j)]]
  <2> SUFFICES ASSUME NEW j \in DOMAIN chain'
               PROVE  /\ chain'[j] \in Entry /\ chain'[j] # chain[i]
                      /\ id'[chain'[j]] = id[chain[Shift(i, j)]]
                      /\ next'[chain'[j]] = links[chain[Shift(i, j)]]
    OBVIOUS
  <2>1. Shift(i, j) \in DOMAIN chain /\ Shift(i, j) # i /\ chain'[j] = chain[Shift(i, j)]
    BY <1>2
  <2>2. chain[Shift(i, j)] \in Entry /\ chain[Shift(i, j)] # chain[i]
    BY <1>1, <2>1
  <2> QED
    BY <1>4, <2>1, <2>2
<1>6. IdsUnique'
  <2> SUFFICES ASSUME NEW j \in DOMAIN chain', NEW k \in DOMAIN chain',
                      id'[chain'[j]] = id'[chain'[k]]
               PROVE  j = k
    BY DEF IdsUnique
  <2>1. Shift(i, j) = Shift(i, k)
    BY <1>2, <1>5 DEF DedupInv, BucketSound, IdsUnique
  <2> QED
    BY <1>2, <2>1
<1>7. Linked(bucket', next', chain')
  <2>1. bucket' = At(chain', 1)
    <3>1. i \in 1 .. Len(chain) /\ 1 \in 1 .. Len(chain)
      BY <1>1
    <3>2. At(chain', 1) = At(chain, Shift(i, 1))
      BY <1>2, <3>1
    <3>3. CASE i = 1
      BY <3>2, <3>3 DEF Shift
    <3>4. CASE i # 1
      <4>1. Shift(i, 1) = 1
        BY <3>1, <3>4 DEF Shift
      <4> QED
        BY <1>1, <3>2, <3>4, <4>1 DEF Linked
    <3> QED
      BY <3>3, <3>4
  <2>2. ASSUME NEW j \in DOMAIN chain' PROVE next'[chain'[j]] = At(chain', j + 1)
    <3>n. PICK n : n = Len(chain)
      OBVIOUS
    <3>d. n \in Nat /\ i \in 1 .. n /\ j \in 1 .. n - 1
      BY <1>1, <1>2, <3>n
    <3>0. /\ j + 1 \in 1 .. n
          /\ Shift(i, j + 1) = IF Shift(i, j) + 1 = i THEN i + 1 ELSE Shift(i, j) + 1
      BY <3>d, ShiftNext
    <3>1. j + 1 \in 1 .. Len(chain)
      BY <3>0, <3>n
    <3>2. At(chain', j + 1) = At(chain, Shift(i, j + 1))
      BY <1>2, <3>1
    <3>3. Shift(i, j + 1) = IF Shift(i, j) + 1 = i THEN i + 1 ELSE Shift(i, j) + 1
      BY <3>0
    <3>4. links[chain[Shift(i, j)]] = At(chain, Shift(i, j + 1))
      BY <1>2, <3>3
    <3> QED
      BY <1>5, <3>2, <3>4
  <2> QED
    BY <2>1, <2>2 DEF Linked
<1>8. BucketSound'
  BY <1>2, <1>6, <1>7, LinkedFacts DEF BucketSound, ChainIsLinked
<1>9. new_entry' = new_entry /\ pc' = pc /\ \A t \in Thread : new_entry[t] = NULL /\ pc[t] = "idle"
  BY DEF threadVars, Quiet, DedupInv, Owns
<1>10. NoLeak'
  BY <1>1, <1>3, <1>9 DEF DedupInv, NoLeak, Delete
<1>11. Owns' /\ Scans'
  BY <1>9 DEF Owns, Scans
<1> QED
  BY <1>2, <1>3, <1>8, <1>10, <1>11

LEMMA CleanKeeps ==
    ASSUME DedupInv, CleanStep
    PROVE  /\ DedupInv'
           /\ \A e \in InChain : e \in InChain' \/ e \in expired
<1>q. kpc # "idle" /\ Quiet
  BY DEF CleanStep, HeadRemoved, CleanedAll, HeadsDone, MiddleRemoved, MiddleKept, MiddleDone,
         DedupInv, Cleans
<1>t. UNCHANGED threadVars
  BY DEF CleanStep, HeadRemoved, CleanedAll, HeadsDone, MiddleRemoved, MiddleKept, MiddleDone
<1>u. Quiet'
  BY <1>q, <1>t DEF Quiet, threadVars
<1>1. CASE HeadRemoved
  <2>1. /\ khead = bucket /\ khead # NULL /\ khead \in expired /\ bucket' = next[khead]
        /\ Delete(khead, next) /\ chain' = Without(khead) /\ khead' = next[khead]
        /\ kpc' = kpc /\ kpc = "heads" /\ head_retries' = 0
        /\ UNCHANGED <<expired, kprev, kcurr>>
    BY <1>1 DEF HeadRemoved
  <2>2. /\ chain \in Seq(Entry) /\ Len(chain) \in Nat /\ DOMAIN chain = 1 .. Len(chain)
        /\ Linked(bucket, next, chain)
    BY InvFacts
  <2>3. 1 \in DOMAIN chain /\ khead = chain[1]
    BY <2>1, <2>2 DEF Linked, At
  <2>4. next \in [Entry -> Entry \cup {NULL}] /\ khead \in Entry
    BY <2>1 DEF DedupInv, TypeOK
  <2>5. \A k \in DOMAIN chain : next[chain[k]] = IF k + 1 = 1 THEN At(chain, 1 + 1)
                                                 ELSE At(chain, k + 1)
    BY <2>2 DEF Linked
  <2>6. bucket' = IF 1 = 1 THEN At(chain, 2) ELSE bucket
    BY <2>1, <2>2, <2>3 DEF Linked
  <2>7. /\ BucketSound' /\ NoLeak' /\ Owns' /\ Scans'
        /\ InChain' = InChain \ {chain[1]} /\ chain' \in Seq(Entry)
    BY <1>q, <1>t, <2>1, <2>3, <2>4, <2>5, <2>6, Unlink
  <2>8. Cleans'
    BY <1>u, <2>1 DEF Cleans
  <2>9. TypeOK'
    <3>1. 0 \in 0 .. MAX_HEAD_RETRIES
      BY RetryAssumption
    <3>2. next[khead] \in Entry \cup {NULL}
      BY <2>4
    <3> QED
      BY <1>t, <2>1, <2>4, <2>7, <3>1, <3>2 DEF DedupInv, TypeOK, Delete, threadVars
  <2> QED
    BY <2>1, <2>3, <2>7, <2>8, <2>9 DEF DedupInv
<1>2. CASE MiddleRemoved
  <2> DEFINE links == [next EXCEPT ![kprev] = next[kcurr]]
  <2>1. /\ kcurr # NULL /\ kcurr \in expired /\ kcurr' = next[kcurr] /\ bucket' = bucket
        /\ Delete(kcurr, links) /\ chain' = Without(kcurr)
        /\ kpc' = kpc /\ kpc = "middle"
        /\ UNCHANGED <<expired, khead, kprev, head_retries>>
    BY <1>2 DEF MiddleRemoved
  <2>2. /\ chain \in Seq(Entry) /\ Len(chain) \in Nat /\ DOMAIN chain = 1 .. Len(chain)
        /\ Linked(bucket, next, chain)
        /\ \A k, j \in DOMAIN chain : chain[k] = chain[j] => k = j
        /\ \A k \in DOMAIN chain : chain[k] \in Entry
    BY InvFacts
  <2>3. PICK j \in DOMAIN chain : kprev = chain[j] /\ kcurr = At(chain, j + 1)
    BY <2>1 DEF DedupInv, Cleans
  <2>4. j + 1 \in DOMAIN chain /\ kcurr = chain[j + 1] /\ j + 1 # 1
    BY <2>1, <2>2, <2>3 DEF At
  <2>5. next \in [Entry -> Entry \cup {NULL}] /\ kcurr \in Entry /\ kprev \in Entry
    BY <2>2, <2>3, <2>4 DEF DedupInv, TypeOK
  <2>6. links \in [Entry -> Entry \cup {NULL}]
    BY <2>5
  <2>7. next[kcurr] = At(chain, (j + 1) + 1)
    BY <2>2, <2>4 DEF Linked
  <2>8. ASSUME NEW k \in DOMAIN chain
        PROVE  links[chain[k]] = IF k + 1 = j + 1 THEN At(chain, (j + 1) + 1)
                                 ELSE At(chain, k + 1)
    <3>1. CASE k = j
      BY <2>3, <2>5, <2>7, <3>1
    <3>2. CASE k # j
      <4>1. chain[k] # kprev /\ k + 1 # j + 1
        BY <2>2, <2>3, <3>2
      <4>2. links[chain[k]] = next[chain[k]]
        BY <2>2, <2>5, <4>1
      <4> QED
        BY <2>2, <4>1, <4>2 DEF Linked
    <3> QED
      BY <3>1, <3>2
  <2> HIDE DEF links
  <2>9. /\ BucketSound' /\ NoLeak' /\ Owns' /\ Scans'
        /\ InChain' = InChain \ {chain[j + 1]} /\ chain' \in Seq(Entry)
        /\ DOMAIN chain' = 1 .. Len(chain) - 1
        /\ \A k \in 1 .. Len(chain) : At(chain', k) = At(chain, Shift(j + 1, k))
    BY <1>q, <1>t, <2>1, <2>4, <2>6, <2>8, Unlink
  <2>10. Cleans'
    <3>1. j \in DOMAIN chain' /\ j \in 1 .. Len(chain) /\ j + 1 \in 1 .. Len(chain)
      BY <2>2, <2>4, <2>9
    <3>2. Shift(j + 1, j) = j /\ Shift(j + 1, j + 1) = (j + 1) + 1
      BY <2>2, <2>3 DEF Shift
    <3>3. At(chain', j) = At(chain, j) /\ At(chain', j + 1) = At(chain, (j + 1) + 1)
      BY <2>9, <3>1, <3>2
    <3>4. kprev' = chain'[j] /\ kcurr' = At(chain', j + 1)
      BY <2>1, <2>3, <2>7, <3>1, <3>3 DEF At
    <3> QED
      BY <1>u, <2>1, <3>1, <3>4 DEF Cleans, At
  <2>11. TypeOK'
    <3>1. next[kcurr] \in Entry \cup {NULL}
      BY <2>5
    <3> QED
      BY <1>t, <2>1, <2>6, <2>9, <3>1 DEF DedupInv, TypeOK, Delete, threadVars
  <2> QED
    BY <2>1, <2>4, <2>9, <2>10, <2>11 DEF DedupInv
<1>3. CASE CleanedAll \/ HeadsDone \/ MiddleKept \/ MiddleDone
  <2>1. UNCHANGED <<heap, bucket, old, chain>>
    BY <1>3 DEF CleanedAll, HeadsDone, MiddleKept, MiddleDone
  <2>2. BucketSound' /\ InChain' = InChain
    BY <2>1, ChainKept DEF heap, InChain
  <2>3. NoLeak' /\ Owns'
    BY <1>t, <2>1, <2>2 DEF threadVars, heap, DedupInv, NoLeak, Owns
  <2>4. Scans'
    BY <1>u DEF Scans, Quiet
  <2>5. /\ Len(chain) \in Nat /\ DOMAIN chain = 1 .. Len(chain)
        /\ Linked(bucket, next, chain) /\ InChain \subseteq Entry
        /\ \A i \in DOMAIN chain : chain[i] \in Entry
    BY InvFacts
  <2>6. Cleans' /\ {khead', kprev', kcurr'} \subseteq Entry \cup {NULL}
    <3>1. CASE CleanedAll \/ MiddleDone
      BY <3>1 DEF CleanedAll, MiddleDone, CleanupEnds, Cleans
    <3>2. CASE HeadsDone
      <4>1. /\ khead = bucket /\ khead # NULL /\ kprev' = khead /\ kcurr' = next[khead]
            /\ kpc' = "middle" /\ khead' = khead
        BY <3>2 DEF HeadsDone, DedupInv, Cleans
      <4>2. 1 \in DOMAIN chain /\ khead = chain[1]
        BY <2>5, <4>1 DEF Linked, At
      <4>3. kcurr' = At(chain, 1 + 1)
        BY <2>5, <4>1, <4>2 DEF Linked
      <4>4. Cleans'
        BY <1>u, <2>1, <4>1, <4>2, <4>3 DEF Cleans, At
      <4>5. next \in [Entry -> Entry \cup {NULL}] /\ khead \in Entry
        BY <4>1 DEF DedupInv, TypeOK
      <4> QED
        BY <4>1, <4>4, <4>5
    <3>3. CASE MiddleKept
      <4>1. /\ kpc = "middle" /\ kpc' = "middle" /\ kcurr # NULL /\ kprev' = kcurr
            /\ kcurr' = next[kcurr] /\ khead' = khead
        BY <3>3 DEF MiddleKept
      <4>2. PICK j \in DOMAIN chain : kprev = chain[j] /\ kcurr = At(chain, j + 1)
        BY <4>1 DEF DedupInv, Cleans
      <4>3. j + 1 \in DOMAIN chain /\ kcurr = chain[j + 1]
        BY <4>1, <4>2 DEF At
      <4>4. kcurr' = At(chain, (j + 1) + 1)
        BY <2>5, <4>1, <4>3 DEF Linked
      <4>5. Cleans'
        BY <1>u, <2>1, <4>1, <4>3, <4>4 DEF Cleans, At
      <4>6. next \in [Entry -> Entry \cup {NULL}] /\ kcurr \in Entry /\ khead \in Entry \cup {NULL}
        BY <2>5, <4>3 DEF DedupInv, TypeOK
      <4> QED
        BY <4>1, <4>5, <4>6
    <3> QED
      BY <1>3, <3>1, <3>2, <3>3
  <2>7. kpc' \in {"idle", "heads", "middle"} /\ expired' \subseteq Entry
          /\ head_retries' \in 0 .. MAX_HEAD_RETRIES
    <3>1. 0 \in 0 .. MAX_HEAD_RETRIES
      BY RetryAssumption
    <3> QED
      BY <1>3, <3>1
         DEF CleanedAll, HeadsDone, MiddleKept, MiddleDone, CleanupEnds, DedupInv, TypeOK
  <2>8. TypeOK'
    BY <1>t, <2>1, <2>6, <2>7 DEF DedupInv, TypeOK, heap, threadVars
  <2> QED
    BY <2>2, <2>3, <2>4, <2>6, <2>8 DEF DedupInv
<1> QED
  BY <1>1, <1>2, <1>3 DEF CleanStep

----------------------------------------------------------------------------

LEMMA NextDedupInv == DedupInv /\ [QuietNext]_vars => DedupInv'
<1> SUFFICES ASSUME DedupInv, [QuietNext]_vars
             PROVE  DedupInv'
  OBVIOUS
<1>1. ASSUME NEW t \in Thread, kpc = "idle" /\ Call(t) PROVE DedupInv'
  BY <1>1, CallKeeps
<1>2. ASSUME NEW t \in Thread, Step(t) PROVE DedupInv'
  BY <1>2, StepKeeps
<1>3. CASE Age \/ (Quiet /\ Cleanup) \/ UNCHANGED vars
  <2>1. UNCHANGED <<heap, bucket, threadVars, chain>>
    BY <1>3 DEF Age, Cleanup, vars
  <2>2. BucketSound' /\ InChain' = InChain
    BY <2>1, ChainKept DEF heap, InChain
  <2>3. NoLeak' /\ Owns'
    BY <2>1, <2>2 DEF threadVars, heap, DedupInv, NoLeak, Owns
  <2>4. Scans'
    BY <2>1 DEF threadVars, heap, DedupInv, Scans, Scanning, Scanned, At
  <2>5. Cleans'
    BY <1>3, <2>1
       DEF Age, Cleanup, vars, cleanVars, threadVars, DedupInv, Cleans, Quiet, At
  <2>6. TypeOK'
    <3>1. 0 \in 0 .. MAX_HEAD_RETRIES
      BY RetryAssumption
    <3> QED
      BY <1>3, <2>1, <3>1
         DEF Age, Cleanup, vars, cleanVars, threadVars, heap, DedupInv, TypeOK
  <2> QED
    BY <2>2, <2>3, <2>4, <2>5, <2>6 DEF DedupInv
<1>4. CASE CleanStep
  BY <1>4, CleanKeeps
<1> QED
  BY <1>1, <1>2, <1>3, <1>4 DEF QuietNext

\* However many threads insert, no id is in the bucket twice, and a scan of the
\* links finds every entry that was inserted and not cleaned up.
THEOREM BucketIsSound == QuietSpec => []BucketSound
<1>1. DedupInv => BucketSound
  BY DEF DedupInv
<1> QED
  BY <1>1, InitDedupInv, NextDedupInv, PTL DEF QuietSpec

\* An entry that is allocated is in the chain or belongs to one running insert():
\* whichever way an insert() ends, and whatever a cleanup unlinks, nothing is leaked.
THEOREM NothingLeaked == QuietSpec => []NoLeak
<1>1. DedupInv => NoLeak
  BY DEF DedupInv
<1> QED
  BY <1>1, InitDedupInv, NextDedupInv, PTL DEF QuietSpec

\* A step takes an entry out of the bucket only when it is expired.
THEOREM OnlyExpiredRemoved == QuietSpec => RemovedOnlyExpired
<1>1. DedupInv /\ [QuietNext]_vars => [\A e \in InChain : e \in InChain' \/ e \in expired]_vars
  <2> SUFFICES ASSUME DedupInv, QuietNext, NEW e \in InChain
               PROVE  e \in InChain' \/ e \in expired
    OBVIOUS
  <2>1. CASE CleanStep
    BY <2>1, CleanKeeps
  <2>2. ASSUME NEW t \in Thread, CasDone(t) PROVE e \in InChain'
    <3>1. new_entry[t] \in Entry /\ chain \in Seq(Entry)
      BY <2>2, OwnEntry, InvFacts DEF CasDone
    <3>2. InFront(new_entry[t], chain, chain')
      BY <2>2, <3>1, FrontFacts DEF CasDone
    <3>3. PICK k \in DOMAIN chain : e = chain[k]
      BY DEF InChain
    <3>4. k + 1 \in DOMAIN chain' /\ chain'[k + 1] = e
      BY <3>2, <3>3, InvFacts DEF InFront
    <3> QED
      BY <3>4 DEF InChain
  <2>3. CASE UNCHANGED chain
    BY <2>3 DEF InChain
  <2> QED
    BY <2>1, <2>2, <2>3
       DEF QuietNext, Call, Insert, IsDuplicate, Step, Load, ScanFound, ScanNext, NotFound,
           CasRetry, CasGiveUp, Age, Cleanup
<1> QED
  BY <1>1, InitDedupInv, NextDedupInv, PTL DEF QuietSpec, RemovedOnlyExpired
============================================================================
