-------------------------- MODULE MpscQueueProofs --------------------------
(***************************************************************************)
(* Theorems about MpscQueue, for every number of producers, every Capacity *)
(* and every heap.                                                         *)
(*                                                                         *)
(* The argument: the nodes from head_ to tail_ form a chain in which each  *)
(* link is either made or owed by exactly one producer that is between its *)
(* exchange and its store (Links, Holes).  The consumer only passes a link *)
(* that is made, so a node it deletes is owed no link and nobody else will *)
(* touch it.                                                               *)
(***************************************************************************)
EXTENDS MpscQueue, FiniteSetTheorems, SequenceTheorems, TLAPS

\* Producer p owes the link from the i-th node of the chain to the next one.
Owes(p, i) == ppc[p] = "link" /\ prev[p] = chain[i] /\ node[p] = chain[i + 1]

\* The chain runs from head_ to tail_ and passes no node twice.
ChainShape == /\ Len(chain) >= 1
              /\ chain[1] = head_
              /\ chain[Len(chain)] = tail_
              /\ \A i, j \in 1 .. Len(chain) : chain[i] = chain[j] => i = j

\* Every link of the chain is made, or still null and owed.
Links == /\ next[tail_] = NULL
         /\ \A i \in 1 .. Len(chain) - 1 :
              \/ next[chain[i]] = chain[i + 1]
              \/ next[chain[i]] = NULL /\ \E p \in Producer : Owes(p, i)

\* Every producer that is about to link owes a link of the chain, and no two
\* producers owe the same one.
Holes == /\ \A p \in Producer :
              ppc[p] = "link" =>
                \E i \in 1 .. Len(chain) - 1 : Owes(p, i) /\ next[chain[i]] = NULL
         /\ \A p, r \in Producer :
              ppc[p] = "link" /\ ppc[r] = "link" /\ prev[p] = prev[r] => p = r

\* The heap holds the chain and the node being deleted, which is off the chain.
Heap == /\ NoLeak
        /\ cpc = "delete" => oldHead \in Node \ Chained

\* Every node after the first carries an item, and so does a pop() under way.
Carries == /\ \A i \in 2 .. Len(chain) : data[chain[i]] \in Item
           /\ cpc # "idle" => popItem \in Item

StructInv == TypeOK /\ ChainShape /\ Links /\ Holes /\ Heap /\ Carries

----------------------------------------------------------------------------
(* Arithmetic of size_ *)

\* Adding one to a size_t.
LEMMA SizeAdd ==
    ASSUME NEW s \in 0 .. SizeMod - 1
    PROVE  /\ (s + 1) % SizeMod \in 0 .. SizeMod - 1
           /\ (s + 1) % SizeMod = IF s + 1 = SizeMod THEN 0 ELSE s + 1
<1>1. SizeMod \in Nat \ {0}
  BY SizeModAssumption
<1>2. CASE s + 1 = SizeMod
  BY <1>1, <1>2
<1>3. CASE s + 1 # SizeMod
  <2>1. s + 1 \in 0 .. SizeMod - 1
    BY <1>1, <1>3
  <2>2. (s + 1) % SizeMod = s + 1
    BY <1>1, <2>1
  <2> QED
    BY <1>3, <2>1, <2>2
<1> QED
  BY <1>2, <1>3

\* Subtracting one from a size_t.
LEMMA SizeSub ==
    ASSUME NEW s \in 0 .. SizeMod - 1
    PROVE  /\ (s + SizeMod - 1) % SizeMod \in 0 .. SizeMod - 1
           /\ (s + SizeMod - 1) % SizeMod = IF s = 0 THEN SizeMod - 1 ELSE s - 1
<1>1. SizeMod \in Nat \ {0}
  BY SizeModAssumption
<1>2. CASE s = 0
  <2>1. SizeMod - 1 \in 0 .. SizeMod - 1
    BY <1>1
  <2>2. (SizeMod - 1) % SizeMod = SizeMod - 1
    BY <1>1, <2>1
  <2> QED
    BY <1>1, <1>2, <2>1, <2>2
<1>3. CASE s # 0
  <2>1. s - 1 \in 0 .. SizeMod - 1
    BY <1>1, <1>3
  <2>2. (s - 1 + SizeMod) % SizeMod = s - 1
    BY <1>1, <2>1
  <2>3. s - 1 + SizeMod = s + SizeMod - 1
    BY <1>1
  <2> QED
    BY <1>3, <2>1, <2>2, <2>3
<1> QED
  BY <1>2, <1>3

----------------------------------------------------------------------------
(* Types *)

\* The queue starts well typed, chained and without a leak.
LEMMA InitStruct == Init => StructInv
<1> SUFFICES ASSUME NEW dummy \in Node,
                    Init!(dummy)
             PROVE  StructInv
  BY DEF Init
<1> USE NodeAssumption, SizeModAssumption, CapacityAssumption, ProducerAssumption
<1>1. Cardinality(Producer) \in Nat
  BY FS_CardinalityType
<1>2. TypeOK
  BY <1>1 DEF TypeOK
<1>3. Chained = {dummy}
  BY DEF Chained
<1> QED
  BY <1>2, <1>3 DEF StructInv, ChainShape, Links, Holes, Heap, NoLeak, Carries

\* Every step keeps the types.
LEMMA NextType == StructInv /\ [Next]_vars => TypeOK'
<1> SUFFICES ASSUME StructInv, [Next]_vars
             PROVE  TypeOK'
  OBVIOUS
<1> USE DEF TypeOK, memory, pvars, cvars
<1>0. TypeOK
  BY DEF StructInv
<1>1. ASSUME NEW p \in Producer,
             PushRefused(p) \/ PushAdmitted(p) \/ PushLink(p)
      PROVE  TypeOK'
  BY <1>0, <1>1 DEF PushRefused, PushAdmitted, PushLink
<1>2. ASSUME NEW p \in Producer, PushSwap(p)
      PROVE  TypeOK'
  BY <1>0, <1>2 DEF PushSwap
<1>3. ASSUME NEW p \in Producer, PushCount(p)
      PROVE  TypeOK'
  <2>1. (size_ + 1) % SizeMod \in 0 .. SizeMod - 1
    BY <1>0, SizeAdd
  <2> QED
    BY <1>0, <1>3, <2>1 DEF PushCount
<1>4. CASE PopEmpty \/ PopDelete
  BY <1>0, <1>4 DEF PopEmpty, PopDelete
<1>5. CASE PopTake
  <2>1. Tail(chain) \in Seq(Node)
    BY <1>0 DEF StructInv, ChainShape
  <2> QED
    BY <1>0, <1>5, <2>1 DEF PopTake
<1>6. CASE PopCount
  <2>1. (size_ + SizeMod - 1) % SizeMod \in 0 .. SizeMod - 1
    BY <1>0, SizeSub
  <2> QED
    BY <1>0, <1>6, <2>1 DEF PopCount
<1>7. CASE UNCHANGED vars
  BY <1>0, <1>7 DEF vars
<1> QED
  BY <1>1, <1>2, <1>3, <1>4, <1>5, <1>6, <1>7 DEF Next, PushStep, Pop

----------------------------------------------------------------------------
(* The chain *)

\* A step that leaves the list, the heap and the producers at their links alone
\* keeps the structure.
LEMMA StructFrame ==
    ASSUME StructInv, TypeOK',
           UNCHANGED <<memory, head_, tail_, chain, oldHead>>,
           \A p \in Producer : /\ ppc[p] = "link" <=> ppc'[p] = "link"
                               /\ ppc[p] = "link" => prev'[p] = prev[p] /\ node'[p] = node[p],
           cpc = "delete" <=> cpc' = "delete",
           cpc' # "idle" => popItem' \in Item
    PROVE  StructInv'
<1> USE DEF StructInv, memory
<1>1. ChainShape'
  BY DEF ChainShape
<1>2. Links'
  BY DEF Links, Owes
<1>3. Holes'
  BY DEF Holes, Owes
<1>4. Heap'
  BY DEF Heap, NoLeak, Chained
<1>5. Carries'
  BY DEF Carries
<1> QED
  BY <1>1, <1>2, <1>3, <1>4, <1>5

\* The exchange appends a node to the chain; the producer owes its link.
LEMMA SwapStruct ==
    ASSUME StructInv, TypeOK', NEW p \in Producer, PushSwap(p)
    PROVE  StructInv'
<1> USE NodeAssumption
<1>0. TypeOK /\ ChainShape /\ Links /\ Holes /\ Heap /\ Carries
  BY DEF StructInv
<1>l. PICK L \in Nat : L = Len(chain)
  BY <1>0 DEF TypeOK
<1>1. PICK n \in Node \ allocated, v \in Item :
          /\ allocated' = allocated \cup {n}
          /\ next' = [next EXCEPT ![n] = NULL]
          /\ data' = [data EXCEPT ![n] = v]
          /\ node' = [node EXCEPT ![p] = n]
          /\ tail_' = n
          /\ chain' = Append(chain, n)
  BY DEF PushSwap
<1>2. /\ prev' = [prev EXCEPT ![p] = tail_]
      /\ ppc' = [ppc EXCEPT ![p] = "link"]
      /\ ppc[p] = "swap"
      /\ UNCHANGED <<head_, size_, pushRes, cpc, oldHead, popItem>>
  BY DEF PushSwap, cvars
<1>3. /\ L \in Nat \ {0}
      /\ Len(chain') = L + 1
      /\ \A i \in 1 .. L : chain'[i] = chain[i]
      /\ chain'[L + 1] = n
  BY <1>0, <1>l, <1>1 DEF TypeOK, ChainShape
<1>4. /\ \A i \in 1 .. L : chain[i] \in Node /\ chain[i] # n
      /\ Chained' = Chained \cup {n}
      /\ n \notin Chained
  <2>1. \A i \in 1 .. L : chain[i] \in allocated
    BY <1>0, <1>l DEF Heap, NoLeak, Chained
  <2>2. \A i \in 1 .. L : chain[i] \in Node /\ chain[i] # n
    BY <1>0, <2>1 DEF TypeOK
  <2>3. Chained' = Chained \cup {n}
    BY <1>3, <1>l DEF Chained
  <2> QED
    BY <1>l, <2>2, <2>3 DEF Chained
<1>5. ChainShape'
  BY <1>0, <1>l, <1>1, <1>2, <1>3, <1>4 DEF ChainShape
<1>6. \A i \in 1 .. L : next'[chain[i]] = next[chain[i]]
  BY <1>0, <1>l, <1>1, <1>4 DEF TypeOK
<1>7. ppc'[p] = "link" /\ prev'[p] = chain[L] /\ node'[p] = n
  BY <1>0, <1>l, <1>1, <1>2 DEF TypeOK, ChainShape
<1>8. \A r \in Producer : r # p => /\ ppc'[r] = ppc[r]
                                  /\ prev'[r] = prev[r]
                                  /\ node'[r] = node[r]
  BY <1>0, <1>l, <1>1, <1>2 DEF TypeOK
<1>9. \A r \in Producer, i \in 1 .. L - 1 : Owes(r, i) => Owes(r, i)'
  BY <1>2, <1>3, <1>8 DEF Owes
<1>10. Links'
  <2>1. next'[tail_'] = NULL
    BY <1>0, <1>l, <1>1 DEF TypeOK
  <2>2. Owes(p, L)' /\ next'[chain'[L]] = NULL
    BY <1>0, <1>l, <1>3, <1>6, <1>7 DEF Owes, Links, ChainShape
  <2>3. ASSUME NEW i \in 1 .. L - 1
        PROVE  \/ next'[chain'[i]] = chain'[i + 1]
               \/ next'[chain'[i]] = NULL /\ \E r \in Producer : Owes(r, i)'
    <3>1. /\ chain'[i] = chain[i]
          /\ chain'[i + 1] = chain[i + 1]
          /\ next'[chain[i]] = next[chain[i]]
      BY <1>3, <1>6
    <3>2. CASE next[chain[i]] = chain[i + 1]
      BY <3>1, <3>2
    <3>3. CASE next[chain[i]] = NULL /\ \E r \in Producer : Owes(r, i)
      BY <1>9, <3>1, <3>3
    <3> QED
      BY <1>0, <1>l, <3>2, <3>3 DEF Links
  <2>4. ASSUME NEW i \in 1 .. L
        PROVE  \/ next'[chain'[i]] = chain'[i + 1]
               \/ next'[chain'[i]] = NULL /\ \E r \in Producer : Owes(r, i)'
    <3>1. CASE i = L
      BY <2>2, <3>1 DEF Owes
    <3>2. CASE i # L
      <4>1. i \in 1 .. L - 1
        BY <3>2
      <4> QED
        BY <2>3, <4>1
    <3> QED
      BY <3>1, <3>2
  <2>5. 1 .. Len(chain') - 1 = 1 .. L
    BY <1>3
  <2> QED
    BY <2>1, <2>4, <2>5 DEF Links, Owes
<1>11. Holes'
  <2>1. ASSUME NEW r \in Producer, ppc'[r] = "link"
        PROVE  \E i \in 1 .. L : Owes(r, i)' /\ next'[chain'[i]] = NULL
    <3>1. CASE r = p
      <4>1. Owes(p, L)' /\ next'[chain'[L]] = NULL
        BY <1>0, <1>l, <1>3, <1>6, <1>7 DEF Owes, Links, ChainShape
      <4> QED
        BY <1>3, <3>1, <4>1
    <3>2. CASE r # p
      <4>1. PICK i \in 1 .. L - 1 : Owes(r, i) /\ next[chain[i]] = NULL
        BY <1>0, <1>l, <1>8, <2>1, <3>2 DEF Holes
      <4>2. i \in 1 .. L /\ Owes(r, i)' /\ next'[chain'[i]] = NULL
        BY <1>3, <1>6, <1>9, <4>1
      <4> QED
        BY <4>2
    <3> QED
      BY <3>1, <3>2
  <2>2. ASSUME NEW r \in Producer, r # p, ppc'[r] = "link"
        PROVE  prev'[r] # prev'[p]
    <3>1. PICK i \in 1 .. L - 1 : prev[r] = chain[i]
      BY <1>0, <1>l, <1>8, <2>2 DEF Holes, Owes
    <3> QED
      BY <1>0, <1>l, <1>3, <1>7, <1>8, <2>2, <3>1 DEF ChainShape
  <2>3. \A r, t \in Producer :
            ppc'[r] = "link" /\ ppc'[t] = "link" /\ prev'[r] = prev'[t] => r = t
    BY <1>0, <1>l, <1>8, <2>2 DEF Holes
  <2> QED
    BY <1>3, <2>1, <2>3 DEF Holes
<1>12. Heap'
  BY <1>0, <1>l, <1>1, <1>2, <1>4 DEF Heap, NoLeak
<1>13. Carries'
  <2>1. \A i \in 2 .. L : data'[chain'[i]] \in Item
    BY <1>0, <1>l, <1>1, <1>3, <1>4 DEF Carries, TypeOK
  <2>2. data'[chain'[L + 1]] \in Item
    BY <1>0, <1>l, <1>1, <1>3 DEF TypeOK
  <2>3. \A i \in 2 .. L + 1 : data'[chain'[i]] \in Item
    BY <1>3, <2>1, <2>2
  <2> QED
    BY <1>0, <1>l, <1>2, <1>3, <2>3 DEF Carries
<1> QED
  BY <1>5, <1>10, <1>11, <1>12, <1>13 DEF StructInv

\* Making a link that is owed completes it and touches no other link.
LEMMA LinkStruct ==
    ASSUME StructInv, TypeOK', NEW p \in Producer, PushLink(p)
    PROVE  StructInv'
<1> USE NodeAssumption
<1>0. TypeOK /\ ChainShape /\ Links /\ Holes /\ Heap /\ Carries
  BY DEF StructInv
<1>1. /\ ppc[p] = "link"
      /\ next' = [next EXCEPT ![prev[p]] = node[p]]
      /\ ppc' = [ppc EXCEPT ![p] = "count"]
      /\ UNCHANGED <<allocated, data, head_, tail_, node, prev, cpc, oldHead, popItem, chain>>
  BY DEF PushLink, cvars
<1>l. PICK L \in Nat : L = Len(chain)
  BY <1>0 DEF TypeOK
<1>2. PICK k \in 1 .. L - 1 : prev[p] = chain[k] /\ node[p] = chain[k + 1]
  BY <1>0, <1>1, <1>l DEF Holes, Owes
<1>3. \A i \in 1 .. L : chain[i] \in Node
  BY <1>0, <1>l DEF TypeOK
<1>4. /\ next'[chain[k]] = chain[k + 1]
      /\ \A i \in 1 .. L : i # k => next'[chain[i]] = next[chain[i]]
  BY <1>0, <1>1, <1>2, <1>3, <1>l DEF TypeOK, ChainShape
<1>5. \A r \in Producer : ppc'[r] = "link" <=> r # p /\ ppc[r] = "link"
  BY <1>0, <1>1 DEF TypeOK
<1>6. ChainShape' /\ Heap' /\ Carries'
  BY <1>0, <1>1 DEF ChainShape, Heap, NoLeak, Chained, Carries
<1>7. Links'
  <2>1. next'[tail_'] = NULL
    BY <1>0, <1>1, <1>2, <1>4, <1>l DEF Links, ChainShape
  <2>2. ASSUME NEW i \in 1 .. L - 1
        PROVE  \/ next'[chain[i]] = chain[i + 1]
               \/ next'[chain[i]] = NULL /\ \E r \in Producer :
                      ppc'[r] = "link" /\ prev[r] = chain[i] /\ node[r] = chain[i + 1]
    <3>1. CASE i = k
      BY <1>4, <3>1
    <3>2. CASE i # k /\ next[chain[i]] = chain[i + 1]
      BY <1>4, <3>2
    <3>3. CASE i # k /\ next[chain[i]] = NULL /\ \E r \in Producer : Owes(r, i)
      <4>1. PICK r \in Producer : Owes(r, i)
        BY <3>3
      <4>2. r # p
        BY <1>0, <1>2, <1>l, <3>3, <4>1 DEF Owes, ChainShape
      <4>3. ppc'[r] = "link" /\ prev[r] = chain[i] /\ node[r] = chain[i + 1]
        BY <1>5, <4>1, <4>2 DEF Owes
      <4> QED
        BY <1>4, <3>3, <4>3
    <3> QED
      BY <1>0, <1>l, <3>1, <3>2, <3>3 DEF Links
  <2> QED
    BY <1>1, <1>l, <2>1, <2>2 DEF Links, Owes
<1>8. Holes'
  <2>1. ASSUME NEW r \in Producer, ppc'[r] = "link"
        PROVE  \E i \in 1 .. L - 1 : /\ prev[r] = chain[i] /\ node[r] = chain[i + 1]
                                     /\ next'[chain[i]] = NULL
    <3>1. PICK i \in 1 .. L - 1 : Owes(r, i) /\ next[chain[i]] = NULL
      BY <1>0, <1>5, <1>l, <2>1 DEF Holes
    <3>2. i # k
      BY <1>0, <1>1, <1>2, <1>5, <2>1, <3>1 DEF Holes, Owes
    <3> QED
      BY <1>4, <3>1, <3>2 DEF Owes
  <2>2. \A r, t \in Producer :
            ppc'[r] = "link" /\ ppc'[t] = "link" /\ prev'[r] = prev'[t] => r = t
    BY <1>0, <1>1, <1>5 DEF Holes
  <2> QED
    BY <1>1, <1>l, <2>1, <2>2 DEF Holes, Owes
<1> QED
  BY <1>6, <1>7, <1>8 DEF StructInv

\* Taking an item drops the first node of the chain, which is owed no link.
LEMMA TakeStruct ==
    ASSUME StructInv, TypeOK', PopTake
    PROVE  StructInv'
<1> USE NodeAssumption
<1>0. TypeOK /\ ChainShape /\ Links /\ Holes /\ Heap /\ Carries
  BY DEF StructInv
<1>1. /\ cpc = "idle" /\ cpc' = "delete"
      /\ next[head_] # NULL
      /\ oldHead' = head_
      /\ popItem' = data[next[head_]]
      /\ data' = [data EXCEPT ![next[head_]] = NoItem]
      /\ head_' = next[head_]
      /\ chain' = Tail(chain)
      /\ UNCHANGED <<allocated, next, tail_, ppc, node, prev>>
  BY DEF PopTake, pvars
<1>l. PICK L \in Nat : L = Len(chain)
  BY <1>0 DEF TypeOK
<1>2. L >= 2 /\ next[head_] = chain[2]
  <2>1. L # 1
    BY <1>0, <1>1, <1>l DEF ChainShape, Links
  <2>2. L >= 2
    BY <1>0, <1>l, <2>1 DEF ChainShape
  <2>3. 1 \in 1 .. Len(chain) - 1
    BY <1>l, <2>2
  <2> QED
    BY <1>0, <1>1, <2>2, <2>3 DEF ChainShape, Links
<1>3. /\ Len(chain') = L - 1
      /\ \A i \in 1 .. L - 1 : chain'[i] = chain[i + 1]
  BY <1>0, <1>1, <1>2, <1>l DEF TypeOK
<1>4. \A i \in 1 .. L : chain[i] \in Node
  BY <1>0, <1>l DEF TypeOK
<1>5. ChainShape'
  <2>1. \A i, j \in 1 .. L : chain[i] = chain[j] => i = j
    BY <1>0, <1>l DEF ChainShape
  <2>2. \A i, j \in 1 .. L - 1 : chain[i + 1] = chain[j + 1] => i = j
    BY <2>1
  <2>3. \A i, j \in 1 .. Len(chain') : chain'[i] = chain'[j] => i = j
    BY <1>3, <2>2
  <2>4. chain'[1] = head_' /\ chain'[L - 1] = tail_'
    BY <1>0, <1>1, <1>2, <1>3, <1>l DEF ChainShape
  <2> QED
    BY <1>2, <1>3, <2>3, <2>4 DEF ChainShape
<1>6. Links'
  <2>1. ASSUME NEW i \in 1 .. L - 2
        PROVE  \/ next[chain'[i]] = chain'[i + 1]
               \/ next[chain'[i]] = NULL /\ \E r \in Producer :
                      ppc[r] = "link" /\ prev[r] = chain'[i] /\ node[r] = chain'[i + 1]
    <3>1. i + 1 \in 1 .. Len(chain) - 1
      BY <1>l
    <3>2. chain'[i] = chain[i + 1] /\ chain'[i + 1] = chain[(i + 1) + 1]
      BY <1>3
    <3> QED
      BY <1>0, <3>1, <3>2 DEF Links, Owes
  <2>2. 1 .. Len(chain') - 1 = 1 .. L - 2
    BY <1>2, <1>3
  <2> QED
    BY <1>0, <1>1, <2>1, <2>2 DEF Links, Owes
<1>7. Holes'
  <2>1. ASSUME NEW r \in Producer, ppc[r] = "link"
        PROVE  \E i \in 1 .. L - 2 : /\ prev[r] = chain'[i] /\ node[r] = chain'[i + 1]
                                     /\ next[chain'[i]] = NULL
    <3>1. PICK i \in 1 .. L - 1 : Owes(r, i) /\ next[chain[i]] = NULL
      BY <1>0, <1>l, <2>1 DEF Holes
    <3>2. i # 1
      BY <1>0, <1>1, <3>1 DEF ChainShape
    <3>3. i - 1 \in 1 .. L - 2 /\ chain'[i - 1] = chain[i] /\ chain'[(i - 1) + 1] = chain[i + 1]
      BY <1>3, <3>2
    <3> QED
      BY <3>1, <3>3 DEF Owes
  <2>2. 1 .. Len(chain') - 1 = 1 .. L - 2
    BY <1>2, <1>3
  <2>3. \A r, t \in Producer :
            ppc'[r] = "link" /\ ppc'[t] = "link" /\ prev'[r] = prev'[t] => r = t
    BY <1>0, <1>1 DEF Holes
  <2> QED
    BY <1>1, <2>1, <2>2, <2>3 DEF Holes, Owes
<1>8. Heap'
  <2>1. \A i \in 1 .. L - 1 : chain'[i] # head_
    BY <1>0, <1>2, <1>3, <1>l DEF ChainShape
  <2>2. head_ \notin Chained'
    BY <1>3, <2>1 DEF Chained
  <2>3. Chained = Chained' \cup {head_}
    <3>1. ASSUME NEW n \in Chained PROVE n \in Chained' \cup {head_}
      <4>1. PICK i \in 1 .. L : n = chain[i]
        BY <1>l DEF Chained
      <4>2. CASE i = 1
        BY <1>0, <4>1, <4>2 DEF ChainShape
      <4>3. CASE i # 1
        <5>1. i - 1 \in 1 .. Len(chain') /\ chain'[i - 1] = n
          BY <1>3, <4>1, <4>3
        <5> QED
          BY <5>1 DEF Chained
      <4> QED
        BY <4>2, <4>3
    <3>2. ASSUME NEW n \in Chained' PROVE n \in Chained
      <4>1. PICK i \in 1 .. Len(chain') : n = chain'[i]
        BY DEF Chained
      <4>2. i + 1 \in 1 .. Len(chain) /\ chain[i + 1] = n
        BY <1>3, <1>l, <4>1
      <4> QED
        BY <4>2 DEF Chained
    <3>3. head_ \in Chained
      BY <1>0 DEF Chained, ChainShape
    <3> QED
      BY <3>1, <3>2, <3>3
  <2> QED
    BY <1>0, <1>1, <2>2, <2>3 DEF Heap, NoLeak, TypeOK
<1>9. Carries'
  <2>1. popItem' \in Item
    BY <1>0, <1>1, <1>2, <1>l DEF Carries
  <2>2. \A i \in 2 .. L - 1 : data'[chain'[i]] = data[chain[i + 1]]
    BY <1>0, <1>1, <1>2, <1>3, <1>4, <1>l DEF TypeOK, ChainShape
  <2>3. \A i \in 2 .. L - 1 : data[chain[i + 1]] \in Item
    BY <1>0, <1>l DEF Carries
  <2> QED
    BY <1>3, <2>1, <2>2, <2>3 DEF Carries
<1> QED
  BY <1>5, <1>6, <1>7, <1>8, <1>9 DEF StructInv

\* Every step of every thread keeps the structure.
LEMMA NextStruct == StructInv /\ [Next]_vars => StructInv'
<1> SUFFICES ASSUME StructInv, [Next]_vars
             PROVE  StructInv'
  OBVIOUS
<1>t. TypeOK'
  BY NextType
<1>0. TypeOK /\ Carries /\ Heap
  BY DEF StructInv
<1>1. ASSUME NEW p \in Producer, PushRefused(p) \/ PushAdmitted(p)
      PROVE  StructInv'
  BY <1>t, <1>0, <1>1, StructFrame
     DEF PushRefused, PushAdmitted, TypeOK, Carries, memory, cvars
<1>2. ASSUME NEW p \in Producer, PushSwap(p)
      PROVE  StructInv'
  BY <1>t, <1>2, SwapStruct
<1>3. ASSUME NEW p \in Producer, PushLink(p)
      PROVE  StructInv'
  BY <1>t, <1>3, LinkStruct
<1>4. ASSUME NEW p \in Producer, PushCount(p)
      PROVE  StructInv'
  BY <1>t, <1>0, <1>4, StructFrame DEF PushCount, TypeOK, Carries, memory, cvars
<1>5. CASE PopEmpty
  BY <1>t, <1>0, <1>5, StructFrame DEF PopEmpty, TypeOK, memory, pvars
<1>6. CASE PopTake
  BY <1>t, <1>6, TakeStruct
<1>7. CASE PopDelete
  <2>1. ChainShape' /\ Carries'
    BY <1>7 DEF PopDelete, StructInv, ChainShape, Carries
  <2>2. Links' /\ Holes'
    BY <1>7 DEF PopDelete, pvars, StructInv, Links, Holes, Owes
  <2>3. Heap'
    BY <1>0, <1>7 DEF PopDelete, Heap, NoLeak, Chained
  <2> QED
    BY <1>t, <2>1, <2>2, <2>3 DEF StructInv
<1>8. CASE PopCount
  BY <1>t, <1>0, <1>8, StructFrame DEF PopCount, TypeOK, memory, pvars
<1>9. CASE UNCHANGED vars
  BY <1>t, <1>0, <1>9, StructFrame DEF vars, TypeOK, Carries, memory, pvars, cvars
<1> QED
  BY <1>1, <1>2, <1>3, <1>4, <1>5, <1>6, <1>7, <1>8, <1>9 DEF Next, PushStep, Pop

\* The structure holds in every state the threads can reach.
THEOREM StructureInvariant == Spec => []StructInv
  BY InitStruct, NextStruct, PTL DEF Spec

\* Every variable of push() and pop() keeps its type and size_ stays a size_t.
THEOREM TypeCorrect == Spec => []TypeOK
<1>1. StructInv => TypeOK
  BY DEF StructInv
<1> QED
  BY <1>1, StructureInvariant, PTL

\* push() and pop() never touch a node that was deleted.
THEOREM MemorySafe == Spec => []NoUseAfterFree
<1>1. StructInv => NoUseAfterFree
  <2> SUFFICES ASSUME StructInv PROVE NoUseAfterFree
    OBVIOUS
  <2>0. TypeOK /\ ChainShape /\ Links /\ Holes /\ Heap
    BY DEF StructInv
  <2>1. \A i \in 1 .. Len(chain) : chain[i] \in allocated
    BY <2>0 DEF Heap, NoLeak, Chained
  <2>2. head_ \in allocated /\ tail_ \in allocated
    BY <2>0, <2>1 DEF ChainShape, TypeOK
  <2>3. next[head_] # NULL => next[head_] \in allocated
    <3> SUFFICES ASSUME next[head_] # NULL PROVE next[head_] \in allocated
      OBVIOUS
    <3>1. Len(chain) \in Nat /\ Len(chain) # 1
      BY <2>0 DEF ChainShape, Links, TypeOK
    <3>2. 1 \in 1 .. Len(chain) - 1 /\ 2 \in 1 .. Len(chain)
      BY <2>0, <3>1 DEF ChainShape
    <3>3. next[head_] = chain[2]
      BY <2>0, <3>2 DEF ChainShape, Links
    <3> QED
      BY <2>1, <3>2, <3>3
  <2>4. ASSUME NEW p \in Producer, ppc[p] = "link"
        PROVE  {prev[p], node[p]} \subseteq allocated
    <3>1. PICK i \in 1 .. Len(chain) - 1 : Owes(p, i)
      BY <2>0, <2>4 DEF Holes
    <3>2. i \in 1 .. Len(chain) /\ i + 1 \in 1 .. Len(chain)
      BY <2>0 DEF TypeOK
    <3> QED
      BY <2>1, <3>1, <3>2 DEF Owes
  <2>5. cpc = "delete" => oldHead \in allocated \ {head_}
    BY <2>0 DEF Heap, NoLeak, Chained, ChainShape
  <2> QED
    BY <2>2, <2>3, <2>4, <2>5 DEF NoUseAfterFree
<1> QED
  BY <1>1, StructureInvariant, PTL

\* No node is lost to the heap: push() and pop() leave reachable from head_ all
\* the destructor has to free.
THEOREM LeakFree == Spec => []NoLeak
<1>1. StructInv => NoLeak
  BY DEF StructInv, Heap
<1> QED
  BY <1>1, StructureInvariant, PTL

----------------------------------------------------------------------------
(* Counting *)

\* Producers past the capacity test and not yet in the chain.
Admitted == {p \in Producer : ppc[p] = "swap"}

\* Producers in the chain and not yet in size_.
Counting == {p \in Producer : ppc[p] \in {"link", "count"}}

\* Items out of the chain and still in size_.
Unsubtracted == IF cpc = "idle" THEN 0 ELSE 1

\* What size_ would be were it not a size_t.
Balance == Queued + Unsubtracted - Cardinality(Counting)

\* An admitted push() has a place below the bound, and size_ is the balance,
\* wrapped around when the balance is negative.
CountInv == /\ Queued + Cardinality(Admitted) <= Capacity - 1 + Cardinality(Producer)
            /\ size_ = Balance \/ size_ = Balance + SizeMod

\* The cardinalities are numbers, and a producer is counted at most once.
LEMMA Cardinalities ==
    /\ Cardinality(Producer) \in Nat
    /\ IsFiniteSet(Admitted) /\ Cardinality(Admitted) \in Nat
    /\ IsFiniteSet(Counting) /\ Cardinality(Counting) \in Nat
    /\ Cardinality(Admitted) + Cardinality(Counting) <= Cardinality(Producer)
    /\ \A p \in Producer \ (Admitted \cup Counting) :
          Cardinality(Admitted) + Cardinality(Counting) + 1 <= Cardinality(Producer)
<1>1. /\ Admitted \subseteq Producer
      /\ Counting \subseteq Producer
      /\ Admitted \cap Counting = {}
  BY DEF Admitted, Counting
<1>2. /\ Cardinality(Producer) \in Nat
      /\ IsFiniteSet(Admitted) /\ Cardinality(Admitted) \in Nat
      /\ IsFiniteSet(Counting) /\ Cardinality(Counting) \in Nat
  BY <1>1, ProducerAssumption, FS_Subset, FS_CardinalityType
<1>3. /\ IsFiniteSet(Admitted \cup Counting)
      /\ Cardinality(Admitted \cup Counting) = Cardinality(Admitted) + Cardinality(Counting)
  <2>1. Cardinality(Admitted \cap Counting) = 0
    BY <1>1, FS_EmptySet
  <2>2. Cardinality(Admitted \cup Counting)
          = Cardinality(Admitted) + Cardinality(Counting) - Cardinality(Admitted \cap Counting)
    BY <1>2, FS_Union
  <2>3. IsFiniteSet(Admitted \cup Counting)
    BY <1>2, FS_Union
  <2> QED
    BY <1>2, <2>1, <2>2, <2>3
<1>4. Cardinality(Admitted \cup Counting) <= Cardinality(Producer)
  BY <1>1, ProducerAssumption, FS_Subset
<1>5. ASSUME NEW p \in Producer \ (Admitted \cup Counting)
      PROVE  Cardinality(Admitted) + Cardinality(Counting) + 1 <= Cardinality(Producer)
  <2> DEFINE U == Admitted \cup Counting
  <2>1. U \cup {p} \subseteq Producer /\ p \notin U
    BY <1>1
  <2>2. Cardinality(U \cup {p}) = Cardinality(U) + 1
    BY <1>3, <2>1, FS_AddElement
  <2>3. Cardinality(U \cup {p}) <= Cardinality(Producer)
    BY <2>1, ProducerAssumption, FS_Subset
  <2> QED
    BY <1>2, <1>3, <2>2, <2>3
<1> QED
  BY <1>2, <1>3, <1>4, <1>5

\* An empty queue is in balance.
LEMMA InitCount == Init => CountInv
<1> SUFFICES ASSUME Init PROVE CountInv
  OBVIOUS
<1>1. Admitted = {} /\ Counting = {}
  BY DEF Init, Admitted, Counting
<1>2. Queued = 0
  BY DEF Init, Queued
<1>3. Cardinality(Admitted) = 0 /\ Cardinality(Counting) = 0
  BY <1>1, FS_EmptySet
<1> QED
  BY <1>2, <1>3, Cardinalities, CapacityAssumption
     DEF Init, CountInv, Balance, Unsubtracted

\* Every step keeps the balance.
LEMMA NextCount == StructInv /\ CountInv /\ [Next]_vars => CountInv'
<1> SUFFICES ASSUME StructInv, CountInv, [Next]_vars
             PROVE  CountInv'
  OBVIOUS
<1> USE CapacityAssumption, SizeModAssumption
<1>0. TypeOK /\ ChainShape
  BY DEF StructInv
<1>q. Queued \in Nat /\ size_ \in 0 .. SizeMod - 1 /\ Unsubtracted \in {0, 1}
  BY <1>0 DEF TypeOK, ChainShape, Queued, Unsubtracted
<1>c. /\ Cardinality(Producer) \in Nat
      /\ IsFiniteSet(Admitted) /\ Cardinality(Admitted) \in Nat
      /\ IsFiniteSet(Counting) /\ Cardinality(Counting) \in Nat
      /\ Cardinality(Admitted) + Cardinality(Counting) <= Cardinality(Producer)
  BY Cardinalities
<1> USE DEF memory, pvars, cvars
<1>1. ASSUME NEW p \in Producer, PushAdmitted(p)
      PROVE  CountInv'
  <2>1. Admitted' = Admitted \cup {p} /\ p \notin Admitted /\ Counting' = Counting
    BY <1>0, <1>1 DEF PushAdmitted, TypeOK, Admitted, Counting
  <2>2. Cardinality(Admitted') = Cardinality(Admitted) + 1
    BY <1>c, <2>1, FS_AddElement
  <2>3. UNCHANGED <<Queued, Unsubtracted, size_>>
    BY <1>1 DEF PushAdmitted, Queued, Unsubtracted
  <2>4. Balance' = Balance
    BY <2>1, <2>3 DEF Balance
  <2>5. p \in Producer \ (Admitted \cup Counting)
    BY <1>1 DEF PushAdmitted, Admitted, Counting
  <2>6. Cardinality(Admitted) + Cardinality(Counting) + 1 <= Cardinality(Producer)
    BY <2>5, Cardinalities
  <2>7. Queued <= Capacity - 1 + Cardinality(Counting)
    BY <1>1, <1>q, <1>c DEF PushAdmitted, CountInv, Balance
  <2> QED
    BY <1>q, <1>c, <2>2, <2>3, <2>4, <2>6, <2>7 DEF CountInv
<1>2. ASSUME NEW p \in Producer, PushSwap(p)
      PROVE  CountInv'
  <2>1. /\ Admitted' = Admitted \ {p} /\ p \in Admitted
        /\ Counting' = Counting \cup {p} /\ p \notin Counting
    BY <1>0, <1>2 DEF PushSwap, TypeOK, Admitted, Counting
  <2>2. /\ Cardinality(Admitted') = Cardinality(Admitted) - 1
        /\ Cardinality(Counting') = Cardinality(Counting) + 1
    BY <1>c, <2>1, FS_AddElement, FS_RemoveElement
  <2>3. Queued' = Queued + 1
    BY <1>0, <1>2 DEF PushSwap, TypeOK, Queued
  <2>4. UNCHANGED <<Unsubtracted, size_>>
    BY <1>2 DEF PushSwap, Unsubtracted
  <2>5. Balance' = Balance
    BY <1>q, <1>c, <2>2, <2>3, <2>4 DEF Balance
  <2> QED
    BY <1>q, <1>c, <2>2, <2>3, <2>4, <2>5 DEF CountInv
<1>3. ASSUME NEW p \in Producer, PushCount(p)
      PROVE  CountInv'
  <2>1. Admitted' = Admitted /\ Counting' = Counting \ {p} /\ p \in Counting
    BY <1>0, <1>3 DEF PushCount, TypeOK, Admitted, Counting
  <2>2. Cardinality(Counting') = Cardinality(Counting) - 1 /\ Cardinality(Counting') \in Nat
    BY <1>c, <2>1, FS_RemoveElement, Cardinalities, FS_CardinalityType
  <2>3. UNCHANGED <<Queued, Unsubtracted>>
    BY <1>3 DEF PushCount, Queued, Unsubtracted
  <2>4. Balance' = Balance + 1
    BY <1>q, <1>c, <2>2, <2>3 DEF Balance
  <2>5. size_' = IF size_ + 1 = SizeMod THEN 0 ELSE size_ + 1
    BY <1>q, <1>3, SizeAdd DEF PushCount
  <2>6. Balance \in Int /\ Balance < SizeMod - 1
    BY <1>q, <1>c, <2>2 DEF Balance, CountInv
  <2>7. size_' = Balance' \/ size_' = Balance' + SizeMod
    BY <1>q, <2>4, <2>5, <2>6 DEF CountInv
  <2> QED
    BY <2>1, <2>3, <2>7 DEF CountInv
<1>4. CASE PopTake
  <2>1. Admitted' = Admitted /\ Counting' = Counting
    BY <1>4 DEF PopTake, Admitted, Counting
  <2>2. Queued' = Queued - 1
    <3>1. chain # << >>
      BY <1>0 DEF ChainShape
    <3> QED
      BY <1>0, <1>4, <3>1 DEF PopTake, TypeOK, Queued
  <2>3. Unsubtracted' = Unsubtracted + 1 /\ size_' = size_
    BY <1>4 DEF PopTake, Unsubtracted
  <2>4. Balance' = Balance
    BY <1>q, <1>c, <2>1, <2>2, <2>3 DEF Balance
  <2> QED
    BY <1>q, <1>c, <2>1, <2>2, <2>3, <2>4 DEF CountInv
<1>5. CASE PopCount
  <2>1. Admitted' = Admitted /\ Counting' = Counting
    BY <1>5 DEF PopCount, Admitted, Counting
  <2>2. Queued' = Queued /\ Unsubtracted' = 0 /\ Unsubtracted = 1
    BY <1>5 DEF PopCount, Queued, Unsubtracted
  <2>3. Balance' = Balance - 1
    BY <1>q, <1>c, <2>1, <2>2 DEF Balance
  <2>4. size_' = IF size_ = 0 THEN SizeMod - 1 ELSE size_ - 1
    BY <1>q, <1>5, SizeSub DEF PopCount
  <2>5. Balance \in Int /\ Balance > 1 - SizeMod
    BY <1>q, <1>c DEF Balance
  <2>6. size_' = Balance' \/ size_' = Balance' + SizeMod
    BY <1>q, <2>3, <2>4, <2>5 DEF CountInv
  <2> QED
    BY <2>1, <2>2, <2>6 DEF CountInv
<1>6. ASSUME NEW p \in Producer, PushRefused(p) \/ PushLink(p)
      PROVE  CountInv'
  <2>1. Admitted' = Admitted /\ Counting' = Counting
    BY <1>0, <1>6 DEF PushRefused, PushLink, TypeOK, Admitted, Counting
  <2> QED
    BY <1>6, <2>1 DEF PushRefused, PushLink, CountInv, Balance, Queued, Unsubtracted
<1>7. CASE PopEmpty \/ PopDelete \/ UNCHANGED vars
  <2>1. Admitted' = Admitted /\ Counting' = Counting
    BY <1>7 DEF PopEmpty, PopDelete, vars, Admitted, Counting
  <2> QED
    BY <1>7, <2>1 DEF PopEmpty, PopDelete, vars, CountInv, Balance, Queued, Unsubtracted
<1> QED
  BY <1>1, <1>2, <1>3, <1>4, <1>5, <1>6, <1>7 DEF Next, PushStep, Pop

\* The chain's structure and the balance of size_ hold in every reachable state.
THEOREM CountInvariant == Spec => [](StructInv /\ CountInv)
<1>1. Init => StructInv /\ CountInv
  BY InitStruct, InitCount
<1>2. (StructInv /\ CountInv) /\ [Next]_vars => (StructInv /\ CountInv)'
  BY NextStruct, NextCount
<1> QED
  BY <1>1, <1>2, PTL DEF Spec

\* mpsc.hpp's "may slightly exceed", made precise: the race at the capacity test
\* lets in at most one item per other producer.
THEOREM Overshoot == Spec => []OvershootBounded
<1>1. CountInv /\ StructInv => OvershootBounded
  BY Cardinalities, CapacityAssumption
     DEF CountInv, StructInv, TypeOK, ChainShape, Queued, OvershootBounded
<1> QED
  BY <1>1, CountInvariant, PTL

\* push() refuses an item only at capacity or while size_ has wrapped below zero.
THEOREM Refused == Spec => RefusedHasReason
<1>1. StructInv /\ CountInv =>
        \A p \in Producer : PushRefused(p) => Present >= Capacity \/ Present < Uncounted
  <2> SUFFICES ASSUME StructInv, CountInv, NEW p \in Producer, PushRefused(p),
                      ~(Present >= Capacity)
               PROVE  Present < Uncounted
    OBVIOUS
  <2>1. Queued \in Nat /\ size_ \in 0 .. SizeMod - 1 /\ Unsubtracted \in {0, 1}
    BY DEF StructInv, TypeOK, ChainShape, Queued, Unsubtracted
  <2>2. Uncounted = Cardinality(Counting) /\ Present = Queued + Unsubtracted
    BY DEF Uncounted, Counting, Present, Unsubtracted
  <2>3. Uncounted \in Nat
    BY <2>2, Cardinalities
  <2>4. size_ >= Capacity
    BY DEF PushRefused
  <2>5. size_ = Balance + SizeMod
    BY <2>1, <2>2, <2>3, <2>4, CapacityAssumption DEF CountInv, Balance
  <2> QED
    BY <2>1, <2>2, <2>3, <2>5, SizeModAssumption DEF Balance
<1>2. (StructInv /\ CountInv) /\ [Next]_vars =>
        [\A p \in Producer : PushRefused(p) => Present >= Capacity \/ Present < Uncounted]_vars
  BY <1>1
<1> QED
  BY <1>2, CountInvariant, PTL DEF Spec, RefusedHasReason

\* size_ comes back to the exact count whenever the operations under way have
\* finished, also after it wrapped around below zero.
THEOREM SizeExact == Spec => []SizeExactAtRest
<1>1. CountInv /\ StructInv => SizeExactAtRest
  <2> SUFFICES ASSUME CountInv, StructInv, cpc = "idle",
                      \A p \in Producer : ppc[p] \in {"idle", "swap"}
               PROVE  size_ = Queued
    BY DEF SizeExactAtRest
  <2>1. Counting = {}
    BY DEF Counting
  <2>2. Cardinality(Counting) = 0
    BY <2>1, FS_EmptySet
  <2>3. Queued \in Nat /\ size_ \in 0 .. SizeMod - 1
    BY DEF StructInv, TypeOK, ChainShape, Queued
  <2>4. Balance = Queued
    BY <2>2, <2>3 DEF Balance, Unsubtracted
  <2> QED
    BY <2>3, <2>4, SizeModAssumption DEF CountInv
<1> QED
  BY <1>1, CountInvariant, PTL

\* A pop() that comes back empty from a queue with an item in it met a push()
\* between its exchange and its link.
THEOREM EmptyHasReason == Spec => []EmptyOnlyIfUnlinked
<1>1. ASSUME StructInv, next[head_] = NULL
      PROVE  \/ Queued = 0
             \/ \E p \in Producer : ppc[p] = "link" /\ prev[p] = head_
  <2>0. TypeOK /\ ChainShape /\ Links
    BY <1>1 DEF StructInv
  <2>1. CASE Len(chain) = 1
    BY <2>1 DEF Queued
  <2>2. CASE Len(chain) # 1
    <3>0. PICK L \in Nat : L = Len(chain)
      BY <2>0 DEF TypeOK
    <3>1. L >= 2 /\ 1 \in 1 .. L - 1 /\ 2 \in 1 .. L
      BY <2>0, <2>2, <3>0 DEF ChainShape
    <3>2. chain[2] \in Node /\ next[chain[1]] = NULL
      BY <1>1, <2>0, <3>0, <3>1 DEF TypeOK, ChainShape
    <3>3. \/ next[chain[1]] = chain[1 + 1]
          \/ \E p \in Producer : ppc[p] = "link" /\ prev[p] = chain[1]
      BY <2>0, <3>0, <3>1 DEF Links, Owes
    <3> QED
      BY <2>0, <3>2, <3>3, NodeAssumption DEF ChainShape
  <2> QED
    BY <2>1, <2>2
<1>2. StructInv => EmptyOnlyIfUnlinked
  BY <1>1 DEF EmptyOnlyIfUnlinked
<1> QED
  BY <1>2, StructureInvariant, PTL

----------------------------------------------------------------------------
(* Refinement: the queue implements the relaxed FIFO queue of FifoQueue. *)

\* The contents are a sequence of items.
ContentsShape == /\ Contents \in Seq(Item)
                 /\ Queued \in Nat
                 /\ Len(Contents) = Queued
                 /\ \A i \in 1 .. Queued : Contents[i] = data[chain[i + 1]]

\* The structure gives the contents that shape.
LEMMA ContentsType == StructInv => ContentsShape
<1> HAVE StructInv
<1>1. Queued \in Nat /\ Len(chain) = Queued + 1
  BY DEF StructInv, TypeOK, ChainShape, Queued
<1>2. \A i \in 1 .. Queued : data[chain[i + 1]] \in Item
  BY <1>1 DEF StructInv, Carries
<1>3. Contents \in [1 .. Queued -> Item]
  BY <1>2 DEF Contents
<1>4. Contents \in Seq(Item) /\ Len(Contents) = Queued
  BY <1>1, <1>3
<1> QED
  BY <1>1, <1>4 DEF Contents, ContentsShape

\* The queue of one dummy node is an empty queue.
LEMMA RefineInit == Init => Fifo!Init
<1> SUFFICES ASSUME Init PROVE Fifo!Init
  OBVIOUS
<1>1. Queued = 0
  BY DEF Init, Queued
<1>2. Contents = << >>
  BY <1>1 DEF Contents
<1> QED
  BY <1>2 DEF Init, Fifo!Init

\* Every step of a thread is a step of the relaxed queue, or none.
LEMMA RefineNext ==
    StructInv /\ StructInv' /\ CountInv /\ [Next]_vars => [Fifo!RelaxedNext]_Fifo!vars
<1> SUFFICES ASSUME StructInv, StructInv', CountInv, [Next]_vars
             PROVE  [Fifo!RelaxedNext]_Fifo!vars
  OBVIOUS
<1> USE DEF memory, pvars, cvars
<1>0. TypeOK /\ ChainShape /\ Links /\ Heap
  BY DEF StructInv
<1>c. ContentsShape
  BY ContentsType
<1>d. ContentsShape'
  BY ContentsType, PTL
<1>1. ASSUME NEW p \in Producer, PushRefused(p)
      PROVE  Fifo!RelaxedNext
  <2>1. Contents' = Contents
    BY <1>1 DEF PushRefused, Contents, Queued
  <2>2. Fifo!Report(p)
    BY <1>1, <2>1 DEF PushRefused, Fifo!Report
  <2> QED
    BY <2>2 DEF Fifo!RelaxedNext
<1>2. ASSUME NEW p \in Producer, PushCount(p)
      PROVE  Fifo!RelaxedNext
  <2>1. Contents' = Contents
    BY <1>2 DEF PushCount, Contents, Queued
  <2>2. Fifo!Report(p)
    BY <1>2, <2>1 DEF PushCount, Fifo!Report
  <2> QED
    BY <2>2 DEF Fifo!RelaxedNext
<1>3. ASSUME NEW p \in Producer, PushSwap(p)
      PROVE  Fifo!RelaxedNext
  <2>1. PICK n \in Node \ allocated, v \in Item :
            data' = [data EXCEPT ![n] = v] /\ chain' = Append(chain, n)
    BY <1>3 DEF PushSwap
  <2>l. PICK L \in Nat : L = Len(chain) /\ L >= 1
    BY <1>0 DEF TypeOK, ChainShape
  <2>2. /\ Len(chain') = L + 1
        /\ chain'[L + 1] = n
        /\ \A i \in 1 .. L : chain'[i] = chain[i]
    BY <1>0, <2>1, <2>l DEF TypeOK
  <2>3. \A i \in 1 .. L : chain[i] \in Node /\ chain[i] # n
    BY <1>0, <2>l DEF TypeOK, Heap, NoLeak, Chained
  <2>4. Queued = L - 1 /\ Queued' = L
    BY <2>2, <2>l DEF Queued
  <2>5. \A i \in 1 .. L - 1 : Contents'[i] = Contents[i]
    <3> SUFFICES ASSUME NEW i \in 1 .. L - 1
                 PROVE  Contents'[i] = Contents[i]
      OBVIOUS
    <3>1. Contents'[i] = data'[chain'[i + 1]] /\ Contents[i] = data[chain[i + 1]]
      BY <1>c, <1>d, <2>4 DEF ContentsShape
    <3> QED
      BY <1>0, <2>1, <2>2, <2>3, <3>1 DEF TypeOK
  <2>6. Contents'[L] = v
    <3>1. Contents'[L] = data'[chain'[L + 1]]
      BY <1>d, <2>4, <2>l DEF ContentsShape
    <3> QED
      BY <1>0, <2>1, <2>2, <3>1 DEF TypeOK
  <2>7. Contents' = Append(Contents, v)
    <3>1. Len(Contents') = L /\ Len(Contents) = L - 1
      BY <1>c, <1>d, <2>4 DEF ContentsShape
    <3>2. Contents' \in Seq(Item) /\ Contents \in Seq(Item)
      BY <1>c, <1>d DEF ContentsShape
    <3> QED
      BY <2>5, <2>6, <2>l, <3>1, <3>2
  <2>8. Len(Contents) < Capacity - 1 + Cardinality(Producer)
    <3>1. p \in Admitted
      BY <1>3 DEF PushSwap, Admitted
    <3>2. Cardinality(Admitted) # 0
      BY <3>1, Cardinalities, FS_EmptySet
    <3> QED
      BY <1>c, <3>2, Cardinalities, CapacityAssumption DEF ContentsShape, CountInv
  <2>9. Fifo!Accept
    BY <1>3, <2>7, <2>8 DEF PushSwap, Fifo!Accept
  <2> QED
    BY <2>9 DEF Fifo!RelaxedNext
<1>4. CASE PopEmpty
  <2>1. Contents' = Contents
    BY <1>4 DEF PopEmpty, Contents, Queued
  <2>2. Fifo!ComeBackEmpty
    BY <1>4, <2>1 DEF PopEmpty, Fifo!ComeBackEmpty
  <2> QED
    BY <2>2 DEF Fifo!RelaxedNext
<1>5. CASE PopTake
  <2>l. PICK L \in Nat : L = Len(chain) /\ L >= 1
    BY <1>0 DEF TypeOK, ChainShape
  <2>1. L >= 2 /\ next[head_] = chain[2]
    <3>1. L # 1
      BY <1>0, <1>5, <2>l DEF PopTake, ChainShape, Links
    <3>2. L >= 2 /\ 1 \in 1 .. Len(chain) - 1
      BY <2>l, <3>1
    <3> QED
      BY <1>0, <1>5, <3>2 DEF PopTake, ChainShape, Links
  <2>2. /\ Len(chain') = L - 1
        /\ \A i \in 1 .. L - 1 : chain'[i] = chain[i + 1]
    BY <1>0, <1>5, <2>1, <2>l DEF PopTake, TypeOK
  <2>3. Queued = L - 1 /\ Queued' = L - 2
    BY <2>1, <2>2, <2>l DEF Queued
  <2>4. \A i \in 3 .. L : chain[i] \in Node /\ chain[i] # chain[2]
    BY <1>0, <2>l, <2>1 DEF TypeOK, ChainShape
  <2>5. \A i \in 1 .. L - 2 : Contents'[i] = Contents[i + 1]
    <3> SUFFICES ASSUME NEW i \in 1 .. L - 2
                 PROVE  Contents'[i] = Contents[i + 1]
      OBVIOUS
    <3>1. Contents'[i] = data'[chain'[i + 1]] /\ Contents[i + 1] = data[chain[(i + 1) + 1]]
      BY <1>c, <1>d, <2>3 DEF ContentsShape
    <3>2. chain'[i + 1] = chain[(i + 1) + 1] /\ (i + 1) + 1 \in 3 .. L
      BY <2>2
    <3> QED
      BY <1>0, <1>5, <2>1, <2>4, <3>1, <3>2 DEF PopTake, TypeOK
  <2>6. Len(Contents) = L - 1 /\ Len(Contents') = L - 2
    BY <1>c, <1>d, <2>3 DEF ContentsShape
  <2>7. Contents \in Seq(Item) /\ Contents' \in Seq(Item)
    BY <1>c, <1>d DEF ContentsShape
  <2>8. Contents # << >> /\ Contents' = Tail(Contents)
    BY <2>1, <2>5, <2>6, <2>7
  <2>9. Head(Contents) = popItem'
    <3>1. Contents[1] = data[chain[2]]
      BY <1>c, <2>1, <2>3 DEF ContentsShape
    <3> QED
      BY <1>5, <2>1, <2>7, <2>8, <3>1 DEF PopTake
  <2>10. Fifo!Hand
    BY <1>5, <2>8, <2>9 DEF PopTake, Fifo!Hand
  <2> QED
    BY <2>10 DEF Fifo!RelaxedNext
<1>6. ASSUME NEW p \in Producer, PushAdmitted(p) \/ PushLink(p)
      PROVE  UNCHANGED Fifo!vars
  BY <1>6 DEF PushAdmitted, PushLink, Fifo!vars, Contents, Queued
<1>7. CASE PopDelete \/ PopCount \/ UNCHANGED vars
  BY <1>7 DEF PopDelete, PopCount, vars, Fifo!vars, Contents, Queued
<1> QED
  BY <1>1, <1>2, <1>3, <1>4, <1>5, <1>6, <1>7 DEF Next, PushStep, Pop

\* push() and pop() together are a FIFO queue: items are accepted in the order
\* of the exchanges, handed out once each in that order, and never more than
\* Capacity - 1 + |Producer| are waiting.
THEOREM ImplementsFifo == Spec => RefinesFifo
<1>1. Init => Fifo!Init
  BY RefineInit
<1>2. (StructInv /\ CountInv) /\ (StructInv /\ CountInv)' /\ [Next]_vars
        => [Fifo!RelaxedNext]_Fifo!vars
  BY RefineNext
<1> QED
  BY <1>1, <1>2, CountInvariant, PTL DEF Spec, RefinesFifo, Fifo!RelaxedSpec
============================================================================
