---------------------------- MODULE ServerProofs ----------------------------
(***************************************************************************)
(* Theorems about the servers that receive events, Epoll and Ingest, for   *)
(* every number of connections, descriptors and workers, whatever the      *)
(* peers send and in whatever pieces it arrives.                           *)
(*                                                                         *)
(* Framing.  The loop that cuts frames out of a buffer ends, as every pass *)
(* that goes on leaves fewer bytes; bytes that come later continue where   *)
(* it stopped to wait for them.  What holds of every buffer is shown by    *)
(* its length: of the buffers it does not hold of, one would be shortest.  *)
(*                                                                         *)
(* Epoll.  A descriptor that stands for a connection is in the hands of    *)
(* the accept thread, or in the epoll set of one worker, or being closed   *)
(* by one worker, and in one of these only.  Its entry is in the map       *)
(* exactly while it is in an epoll set or about to be added to one, and    *)
(* holds what the connection's bytes leave when scanned in one piece.      *)
(*                                                                         *)
(* Ingest.  A client's thread is in the list or about to be put there,     *)
(* from its start to its end; a client holds what its bytes leave when     *)
(* scanned in one piece; a datagram adds one to one of the counters.       *)
(***************************************************************************)
EXTENDS Epoll, WellFoundedInduction, SequenceTheorems, TLAPS

----------------------------------------------------------------------------
(* Framing: the frames of a stream of bytes *)

\* A set of numbers has a least one.
LEMMA LeastNumber ==
    ASSUME NEW S \in SUBSET Nat, S # {}
    PROVE  \E x \in S : \A y \in S : x <= y
<1>1. PICK x \in S : \A y \in S : ~(<<y, x>> \in OpToRel(<, Nat))
  BY NatLessThanWellFounded, WFMin
<1>2. ASSUME NEW y \in S PROVE x <= y
  <2>1. x \in Nat /\ y \in Nat /\ ~(y < x)
    BY <1>1 DEF OpToRel
  <2> QED
    BY <2>1
<1> QED
  BY <1>2

\* Min is a least element.
LEMMA MinInSet ==
    ASSUME NEW S \in SUBSET Nat, S # {}
    PROVE  Min(S) \in S
<1>1. PICK x \in S : \A y \in S : x <= y
  BY LeastNumber
<1> QED
  BY <1>1 DEF Min

\* A loop that counts down to its end computes a function: for every state there
\* is a result, that of the state after one pass, or the state itself at the end.
LEMMA LoopExists ==
    ASSUME NEW S, NEW end \in SUBSET S, NEW pass \in [S -> S], NEW left \in [S -> Nat],
           \A s \in S \ end : left[pass[s]] < left[s]
    PROVE  \E g : g = [s \in S |-> IF s \in end THEN s ELSE g[pass[s]]]
<1> DEFINE Below(n) == {s \in S : left[s] < n}
           Solves(g, n) == g = [s \in Below(n) |-> IF s \in end THEN s ELSE g[pass[s]]]
<1>1. ASSUME NEW n \in Nat, NEW s \in Below(n), s \notin end
      PROVE  pass[s] \in S /\ left[pass[s]] \in Nat /\ left[pass[s]] + 1 < n + 1
    BY <1>1
<1>2. \A n \in Nat : \E g : Solves(g, n)
  <2> DEFINE Failing == {n \in Nat : ~\E g : Solves(g, n)}
  <2> SUFFICES ASSUME Failing # {} PROVE FALSE
    OBVIOUS
  <2>1. PICK n \in Failing : \A k \in Failing : n <= k
    BY LeastNumber
  <2>2. n # 0
    <3>1. Below(0) = {}
      OBVIOUS
    <3>2. Solves([s \in {} |-> s], 0)
      BY <3>1
    <3> QED
      BY <2>1, <3>2
  <2>3. n - 1 \in Nat /\ n - 1 \notin Failing
    <3>1. n \in Nat
      OBVIOUS
    <3> HIDE DEF Failing
    <3> QED
      BY <2>1, <2>2, <3>1
  <2>4. PICK g : Solves(g, n - 1)
    BY <2>3
  <2> DEFINE h == [s \in Below(n) |-> IF s \in end THEN s ELSE g[pass[s]]]
  <2>5. ASSUME NEW s \in Below(n), s \notin end PROVE h[pass[s]] = g[pass[s]]
    <3>1. pass[s] \in Below(n - 1) /\ pass[s] \in Below(n)
      BY <2>3, <2>5
    <3>2. h[pass[s]] = IF pass[s] \in end THEN pass[s] ELSE g[pass[pass[s]]]
      BY <3>1
    <3>3. g[pass[s]] = IF pass[s] \in end THEN pass[s] ELSE g[pass[pass[s]]]
      BY <2>4, <3>1
    <3> QED
      BY <3>2, <3>3, Zenon
  <2>6. Solves(h, n)
    BY <2>5
  <2> QED
    BY <2>1, <2>6
<1>3. ASSUME NEW n \in Nat, NEW k \in Nat, NEW g, NEW h, Solves(g, n), Solves(h, k),
             NEW s \in Below(n), s \in Below(k)
      PROVE  g[s] = h[s]
  <2> DEFINE Differ == {left[t] : t \in {u \in Below(n) \cap Below(k) : g[u] # h[u]}}
  <2> SUFFICES ASSUME Differ # {} PROVE FALSE
    BY <1>3
  <2>1. Differ \in SUBSET Nat
    OBVIOUS
  <2>2. PICK i \in Differ : \A j \in Differ : i <= j
    BY <2>1, LeastNumber
  <2>3. PICK t \in Below(n) \cap Below(k) : g[t] # h[t] /\ left[t] = i
    BY <2>2
  <2>4. /\ g[t] = IF t \in end THEN t ELSE g[pass[t]]
        /\ h[t] = IF t \in end THEN t ELSE h[pass[t]]
    BY <1>3, <2>3
  <2>5. t \notin end /\ g[pass[t]] # h[pass[t]]
    BY <2>3, <2>4
  <2>6. pass[t] \in Below(n) \cap Below(k) /\ left[pass[t]] < i /\ i \in Nat
    BY <1>3, <2>1, <2>2, <2>3, <2>5
  <2>7. left[pass[t]] \in Differ
    BY <2>5, <2>6
  <2> QED
    BY <2>1, <2>2, <2>6, <2>7
<1> DEFINE G(n) == CHOOSE g : Solves(g, n)
           F == [s \in S |-> G(left[s] + 1)[s]]
<1>4. \A n \in Nat : Solves(G(n), n)
  BY <1>2
<1> HIDE DEF G
<1>5. ASSUME NEW s \in S PROVE F[s] = IF s \in end THEN s ELSE F[pass[s]]
  <2> DEFINE n == left[s] + 1
             k == left[pass[s]] + 1
  <2>1. n \in Nat /\ s \in Below(n)
    OBVIOUS
  <2>2. F[s] = G(n)[s]
    OBVIOUS
  <2>3. G(n)[s] = IF s \in end THEN s ELSE G(n)[pass[s]]
    <3>1. G(n) = [u \in Below(n) |-> IF u \in end THEN u ELSE G(n)[pass[u]]]
      BY <1>4, <2>1
    <3> HIDE DEF n, Below
    <3> QED
      BY <2>1, <3>1
  <2>4. ASSUME s \notin end PROVE G(n)[pass[s]] = F[pass[s]]
    <3>1. k \in Nat /\ pass[s] \in Below(n) /\ pass[s] \in Below(k)
      BY <2>4
    <3>2. Solves(G(n), n) /\ Solves(G(k), k)
      BY <1>4, <2>1, <3>1
    <3>3. G(n)[pass[s]] = G(k)[pass[s]]
      <4> HIDE DEF Solves, n, k, Below
      <4> QED
        BY <1>3, <2>1, <3>1, <3>2
    <3> QED
      BY <3>3
  <2> QED
    BY <2>2, <2>3, <2>4
<1>6. F = [s \in S |-> IF s \in end THEN s ELSE F[pass[s]]]
  BY <1>5
<1> QED
  BY <1>6

\* The digits of a number make a number.
LEMMA ReadUintType ==
    ASSUME NEW bytes \in Seq(Nat)
    PROVE  ReadUintBE(bytes) \in Nat
<1> DEFINE n == Len(bytes)
           v == CHOOSE g : g = [k \in 0 .. n |-> IF k = 0 THEN 0 ELSE g[k - 1] * Base + bytes[k]]
<1>1. ReadUintBE(bytes) = v[n]
  BY DEF ReadUintBE
<1>2. n \in Nat /\ \A k \in 1 .. n : bytes[k] \in Nat
  OBVIOUS
<1>3. \A a, b \in Nat : a * Base + b \in Nat
  BY FramingAssumption
<1> HIDE DEF n
<1>4. \E g : g = [k \in 0 .. n |-> IF k = 0 THEN 0 ELSE g[k - 1] * Base + bytes[k]]
  <2> DEFINE Reads(g, i) == /\ g \in [0 .. i -> Nat] /\ g[0] = 0
                            /\ \A k \in 1 .. i : g[k] = g[k - 1] * Base + bytes[k]
             Failing == {i \in 0 .. n : ~\E g : Reads(g, i)}
  <2>1. Failing = {}
    <3> SUFFICES ASSUME Failing # {} PROVE FALSE
      OBVIOUS
    <3>1. Failing \in SUBSET Nat
      BY <1>2
    <3>2. PICK i \in Failing : \A j \in Failing : i <= j
      BY <3>1, LeastNumber
    <3>3. i # 0
      <4>1. Reads([k \in 0 .. 0 |-> 0], 0)
        OBVIOUS
      <4> QED
        BY <3>2, <4>1
    <3>4. i \in 1 .. n /\ i - 1 \in 0 .. n /\ i - 1 \notin Failing
      <4>1. i \in 0 .. n
        OBVIOUS
      <4> HIDE DEF Failing
      <4> QED
        BY <1>2, <3>2, <3>3, <4>1
    <3>5. PICK g : Reads(g, i - 1)
      BY <3>4
    <3> DEFINE last == g[i - 1] * Base + bytes[i]
               h == [k \in 0 .. i |-> IF k = i THEN last ELSE g[k]]
    <3>6. last \in Nat
      <4>1. g[i - 1] \in Nat /\ bytes[i] \in Nat
        BY <1>2, <3>4, <3>5
      <4> QED
        BY <1>3, <4>1
    <3>7. h \in [0 .. i -> Nat] /\ h[0] = 0
      <4> HIDE DEF last
      <4> QED
        BY <1>2, <3>4, <3>5, <3>6
    <3>8. ASSUME NEW k \in 1 .. i PROVE h[k] = h[k - 1] * Base + bytes[k]
      <4>1. CASE k = i
        <5>1. h[i] = last /\ h[i - 1] = g[i - 1]
          <6> HIDE DEF last
          <6> QED
            BY <1>2, <3>4
        <5> QED
          BY <4>1, <5>1
      <4>2. CASE k # i
        <5>1. k \in 1 .. i - 1 /\ h[k] = g[k] /\ h[k - 1] = g[k - 1]
          <6> HIDE DEF last
          <6> QED
            BY <1>2, <3>4, <4>2
        <5> QED
          BY <3>5, <5>1
      <4> QED
        BY <4>1, <4>2
    <3> QED
      BY <3>2, <3>7, <3>8
  <2>2. PICK g : Reads(g, n)
    <3>1. n \in 0 .. n
      BY <1>2
    <3> HIDE DEF Reads
    <3> QED
      BY <2>1, <3>1
  <2>3. g = [k \in 0 .. n |-> IF k = 0 THEN 0 ELSE g[k - 1] * Base + bytes[k]]
    <3>1. \A k \in 0 .. n : g[k] = IF k = 0 THEN 0 ELSE g[k - 1] * Base + bytes[k]
      BY <1>2, <2>2
    <3> QED
      BY <2>2, <3>1
  <2> QED
    BY <2>3
<1>5. v = [k \in 0 .. n |-> IF k = 0 THEN 0 ELSE v[k - 1] * Base + bytes[k]]
  BY <1>4
<1> HIDE DEF v
<1>6. \A k \in 0 .. n : v[k] \in Nat
  <2> DEFINE Failing == {k \in 0 .. n : v[k] \notin Nat}
  <2> SUFFICES ASSUME Failing # {} PROVE FALSE
    OBVIOUS
  <2>1. Failing \in SUBSET Nat
    BY <1>2
  <2>2. PICK i \in Failing : \A j \in Failing : i <= j
    BY <2>1, LeastNumber
  <2>3. i # 0
    BY <1>2, <1>5, <2>2
  <2>4. v[i] = v[i - 1] * Base + bytes[i]
    BY <1>2, <1>5, <2>2, <2>3
  <2>5. v[i - 1] \in Nat /\ bytes[i] \in Nat
    BY <1>2, <2>2, <2>3
  <2> QED
    BY <1>3, <2>2, <2>4, <2>5
<1> QED
  BY <1>1, <1>2, <1>6

\* What a frame that can be parsed gives
FrameEvent == [priority : 0 .. CRITICAL, topic : Seq(Nat), payload : Seq(Nat)]

\* The elements of a part of a sequence.
LEMMA Slice ==
    ASSUME NEW S, NEW s \in Seq(S), NEW m \in Nat \ {0}, NEW n \in 0 .. Len(s), m <= n + 1
    PROVE  /\ SubSeq(s, m, n) \in Seq(S)
           /\ Len(SubSeq(s, m, n)) = n - m + 1
           /\ \A i \in 1 .. n - m + 1 : SubSeq(s, m, n)[i] = s[m + i - 1]
<1>1. Len(s) \in Nat /\ \A i \in 1 .. Len(s) : s[i] \in S
  OBVIOUS
<1>2. m \in Int /\ n \in Int /\ \A i \in m .. n : s[i] \in S
  BY <1>1
<1>3. /\ SubSeq(s, m, n) \in Seq(S)
      /\ Len(SubSeq(s, m, n)) = IF m <= n THEN n - m + 1 ELSE 0
      /\ \A i \in 1 .. n - m + 1 : SubSeq(s, m, n)[i] = s[m + i - 1]
  BY <1>2, SubSeqProperties
<1> QED
  BY <1>1, <1>3

\* What is put at the end of a sequence changes nothing of its first elements and
\* comes after the others.
LEMMA HeadAndRest ==
    ASSUME NEW S, NEW s \in Seq(S), NEW t \in Seq(S), NEW k \in 0 .. Len(s)
    PROVE  /\ SubSeq(s \o t, 1, k) = SubSeq(s, 1, k)
           /\ SubSeq(s \o t, k + 1, Len(s \o t)) = SubSeq(s, k + 1, Len(s)) \o t
<1>1. /\ s \o t \in Seq(S) /\ Len(s \o t) = Len(s) + Len(t)
      /\ Len(s) \in Nat /\ Len(t) \in Nat
      /\ \A i \in 1 .. Len(s) + Len(t) : (s \o t)[i] = IF i <= Len(s) THEN s[i]
                                                       ELSE t[i - Len(s)]
  BY ConcatProperties, LenProperties
<1>2. SubSeq(s \o t, 1, k) = SubSeq(s, 1, k)
  <2>1. /\ SubSeq(s \o t, 1, k) \in Seq(S) /\ Len(SubSeq(s \o t, 1, k)) = k
        /\ \A i \in 1 .. k : SubSeq(s \o t, 1, k)[i] = (s \o t)[i]
    <3>1. k \in 0 .. Len(s \o t) /\ 1 <= k + 1 /\ 1 \in Nat \ {0}
      BY <1>1
    <3>2. /\ SubSeq(s \o t, 1, k) \in Seq(S) /\ Len(SubSeq(s \o t, 1, k)) = k - 1 + 1
          /\ \A i \in 1 .. k - 1 + 1 : SubSeq(s \o t, 1, k)[i] = (s \o t)[1 + i - 1]
      BY <1>1, <3>1, Slice
    <3> QED
      BY <1>1, <3>2
  <2>2. /\ SubSeq(s, 1, k) \in Seq(S) /\ Len(SubSeq(s, 1, k)) = k
        /\ \A i \in 1 .. k : SubSeq(s, 1, k)[i] = s[i]
    <3>1. 1 <= k + 1 /\ 1 \in Nat \ {0}
      BY <1>1
    <3>2. /\ SubSeq(s, 1, k) \in Seq(S) /\ Len(SubSeq(s, 1, k)) = k - 1 + 1
          /\ \A i \in 1 .. k - 1 + 1 : SubSeq(s, 1, k)[i] = s[1 + i - 1]
      BY <3>1, Slice
    <3> QED
      BY <1>1, <3>2
  <2>3. \A i \in 1 .. k : (s \o t)[i] = s[i]
    BY <1>1
  <2> QED
    BY <2>1, <2>2, <2>3, SeqEqual
<1>3. SubSeq(s \o t, k + 1, Len(s \o t)) = SubSeq(s, k + 1, Len(s)) \o t
  <2> DEFINE n == Len(s) + Len(t)
             a == SubSeq(s \o t, k + 1, n)
             b == SubSeq(s, k + 1, Len(s))
  <2>1. a \in Seq(S) /\ Len(a) = n - k /\ \A i \in 1 .. n - k : a[i] = (s \o t)[k + i]
    <3>1. n \in 0 .. Len(s \o t) /\ k + 1 <= n + 1 /\ k + 1 \in Nat \ {0}
      BY <1>1
    <3>2. /\ a \in Seq(S) /\ Len(a) = n - (k + 1) + 1
          /\ \A i \in 1 .. n - (k + 1) + 1 : a[i] = (s \o t)[(k + 1) + i - 1]
      BY <1>1, <3>1, Slice
    <3>3. n \in Nat /\ n - (k + 1) + 1 = n - k
      BY <1>1
    <3>4. \A i \in 1 .. n - k : (k + 1) + i - 1 = k + i
      BY <1>1, <3>3
    <3> HIDE DEF a, n
    <3> QED
      BY <3>2, <3>3, <3>4
  <2>2. b \in Seq(S) /\ Len(b) = Len(s) - k /\ \A i \in 1 .. Len(s) - k : b[i] = s[k + i]
    <3>1. Len(s) \in 0 .. Len(s) /\ k + 1 <= Len(s) + 1 /\ k + 1 \in Nat \ {0}
      BY <1>1
    <3>2. /\ b \in Seq(S) /\ Len(b) = Len(s) - (k + 1) + 1
          /\ \A i \in 1 .. Len(s) - (k + 1) + 1 : b[i] = s[(k + 1) + i - 1]
      BY <3>1, Slice
    <3> HIDE DEF b
    <3> QED
      BY <1>1, <3>2
  <2> HIDE DEF a, b
  <2>3. /\ b \o t \in Seq(S) /\ Len(b \o t) = Len(b) + Len(t)
        /\ \A i \in 1 .. Len(b) + Len(t) : (b \o t)[i] = IF i <= Len(b) THEN b[i]
                                                         ELSE t[i - Len(b)]
    BY <2>2, ConcatProperties
  <2>4. Len(a) = Len(b \o t)
    BY <1>1, <2>1, <2>2, <2>3
  <2>5. ASSUME NEW i \in 1 .. Len(a) PROVE a[i] = (b \o t)[i]
    <3>1. i \in 1 .. n - k /\ k + i \in 1 .. n /\ i \in 1 .. Len(b) + Len(t)
      BY <1>1, <2>1, <2>2
    <3>2. a[i] = IF k + i <= Len(s) THEN s[k + i] ELSE t[k + i - Len(s)]
      BY <1>1, <2>1, <3>1
    <3>3. CASE i <= Len(b)
      <4>1. k + i <= Len(s) /\ i \in 1 .. Len(s) - k
        BY <1>1, <2>2, <3>1, <3>3
      <4> QED
        BY <2>2, <2>3, <3>1, <3>2, <3>3, <4>1
    <3>4. CASE ~(i <= Len(b))
      <4>1. ~(k + i <= Len(s)) /\ k + i - Len(s) = i - Len(b)
        BY <1>1, <2>2, <3>1, <3>4
      <4> QED
        BY <2>3, <3>1, <3>2, <3>4, <4>1
    <3> QED
      BY <3>3, <3>4
  <2>6. a = b \o t
    BY <2>1, <2>3, <2>4, <2>5, SeqEqual
  <2> QED
    BY <1>1, <2>6 DEF a, b
<1> QED
  BY <1>2, <1>3

\* The length of a frame, as soon as its bytes are there, is a number that more
\* bytes do not change.
LEMMA FrameLenType ==
    ASSUME NEW buf \in Seq(Nat), Len(buf) >= HeaderSize
    PROVE  frameLen(buf) \in Nat
<1>1. HeaderSize \in Nat \ {0} /\ HeaderSize \in 0 .. Len(buf) /\ 1 <= HeaderSize + 1
  BY FramingAssumption
<1>2. SubSeq(buf, 1, HeaderSize) \in Seq(Nat)
  BY <1>1, Slice
<1> QED
  BY <1>2, ReadUintType DEF frameLen

\* More bytes do not change it.
LEMMA FrameLenKept ==
    ASSUME NEW buf \in Seq(Nat), NEW more \in Seq(Nat), Len(buf) >= HeaderSize
    PROVE  frameLen(buf \o more) = frameLen(buf)
<1>1. HeaderSize \in 0 .. Len(buf)
  BY FramingAssumption
<1>2. SubSeq(buf \o more, 1, HeaderSize) = SubSeq(buf, 1, HeaderSize)
  BY <1>1, HeadAndRest
<1> QED
  BY <1>2 DEF frameLen

\* What a parse gives.
LEMMA BodyType ==
    ASSUME NEW body \in Seq(Nat)
    PROVE  parseFrameBody(body) = Bad \/ parseFrameBody(body) \in FrameEvent
<1> DEFINE n == ReadUintBE(SubSeq(body, 2, 3))
<1> SUFFICES ASSUME Len(body) >= 3, body[1] <= CRITICAL, Len(body) >= 3 + n, n # 0
             PROVE  parseFrameBody(body) \in FrameEvent
  <2>1. Len(body) \in Nat
    OBVIOUS
  <2>2. Len(body) < 3 \/ ~(Len(body) < 3)
    OBVIOUS
  <2>3. CASE Len(body) < 3
    BY <2>3 DEF parseFrameBody
  <2>4. CASE ~(Len(body) < 3)
    <3>1. SubSeq(body, 2, 3) \in Seq(Nat)
      BY <2>1, <2>4, Slice
    <3>2. n \in Nat
      BY <3>1, ReadUintType
    <3>3. body[1] \in Nat
      BY <2>1, <2>4
    <3> HIDE DEF n
    <3>4. \/ Len(body) >= 3 /\ body[1] <= CRITICAL /\ Len(body) >= 3 + n /\ n # 0
          \/ body[1] > CRITICAL \/ Len(body) < 3 + n \/ n = 0
      BY <2>1, <2>4, <3>2, <3>3 DEF CRITICAL
    <3> QED
      BY <3>4 DEF parseFrameBody, n
  <2> QED
    BY <2>3, <2>4
<1>1. Len(body) \in Nat /\ body[1] \in Nat
  OBVIOUS
<1>2. n \in Nat
  <2>1. SubSeq(body, 2, 3) \in Seq(Nat)
    BY <1>1, Slice
  <2> QED
    BY <2>1, ReadUintType
<1>3. SubSeq(body, 4, 3 + n) \in Seq(Nat) /\ SubSeq(body, 4 + n, Len(body)) \in Seq(Nat)
  <2> HIDE DEF n
  <2>1. /\ 3 + n \in 0 .. Len(body) /\ 4 <= (3 + n) + 1 /\ 4 \in Nat \ {0}
        /\ Len(body) \in 0 .. Len(body) /\ 4 + n <= Len(body) + 1 /\ 4 + n \in Nat \ {0}
    BY <1>1, <1>2
  <2> QED
    BY <2>1, Slice
<1>4. ~(Len(body) < 3) /\ ~(body[1] > CRITICAL) /\ ~(Len(body) < 3 + n)
  <2> HIDE DEF n
  <2> QED
    BY <1>1, <1>2 DEF CRITICAL
<1>5. parseFrameBody(body) = [priority |-> body[1], topic |-> SubSeq(body, 4, 3 + n),
                              payload |-> SubSeq(body, 4 + n, Len(body))]
  BY <1>4 DEF parseFrameBody
<1> HIDE DEF n
<1>6. body[1] \in 0 .. CRITICAL
  BY <1>1 DEF CRITICAL
<1> QED
  BY <1>3, <1>5, <1>6, SMTT(20) DEF FrameEvent

\* What a whole frame gives.
LEMMA FrameType ==
    ASSUME NEW frame \in Seq(Nat)
    PROVE  parseFullFrame(frame) = Bad \/ parseFullFrame(frame) \in FrameEvent
<1>1. CASE Len(frame) < HeaderSize \/ frameLen(frame) # Len(frame) - HeaderSize
  BY <1>1 DEF parseFullFrame
<1>2. CASE ~(Len(frame) < HeaderSize \/ frameLen(frame) # Len(frame) - HeaderSize)
  <2>1. /\ Len(frame) \in 0 .. Len(frame) /\ HeaderSize + 1 <= Len(frame) + 1
        /\ HeaderSize + 1 \in Nat \ {0}
    BY <1>2, LenProperties, FramingAssumption
  <2>2. SubSeq(frame, HeaderSize + 1, Len(frame)) \in Seq(Nat)
    BY <2>1, Slice
  <2> QED
    BY <1>2, <2>2, BodyType DEF parseFullFrame
<1> QED
  BY <1>1, <1>2

\* A state of the loop, the frame at the head of a buffer, what follows it, and
\* the result of the loop.
St(buf, empties, found, do) == [buf |-> buf, empties |-> empties, events |-> found, do |-> do]
Size(buf) == HeaderSize + frameLen(buf)
Rest(buf) == SubSeq(buf, Size(buf) + 1, Len(buf))
Found(buf) == LET event == parseFullFrame(SubSeq(buf, 1, Size(buf)))
              IN  IF event = Bad THEN << >> ELSE <<event>>
Result(buf, empties, found) == Loop[St(buf, empties, found, "more")]

\* The cases of a pass.
TooShort(buf) == Len(buf) < HeaderSize
Empty(buf) == Len(buf) >= HeaderSize /\ frameLen(buf) = 0
TooLarge(buf) == Len(buf) >= HeaderSize /\ frameLen(buf) > MaxFrameSize
Partial(buf) == /\ Len(buf) >= HeaderSize /\ frameLen(buf) \in 1 .. MaxFrameSize
                /\ Len(buf) < Size(buf)
Whole(buf) == /\ Len(buf) >= HeaderSize /\ frameLen(buf) \in 1 .. MaxFrameSize
              /\ Len(buf) >= Size(buf)

\* One of the cases applies.
LEMMA Cases ==
    ASSUME NEW buf \in Seq(Nat)
    PROVE  TooShort(buf) \/ Empty(buf) \/ TooLarge(buf) \/ Partial(buf) \/ Whole(buf)
<1>1. Len(buf) \in Nat /\ HeaderSize \in Nat /\ MaxFrameSize \in Nat
  BY LenProperties, FramingAssumption
<1>2. CASE Len(buf) < HeaderSize
  BY <1>2 DEF TooShort
<1>3. CASE Len(buf) >= HeaderSize
  <2>1. frameLen(buf) \in Nat
    BY <1>3, FrameLenType
  <2> QED
    BY <1>1, <1>3, <2>1 DEF Empty, TooLarge, Partial, Whole, Size
<1> QED
  BY <1>1, <1>2, <1>3

\* The frame is cut off: there is less left.
LEMMA RestType ==
    ASSUME NEW buf \in Seq(Nat), Empty(buf) \/ Whole(buf)
    PROVE  /\ Size(buf) \in 1 .. Len(buf)
           /\ Rest(buf) \in Seq(Nat) /\ Len(Rest(buf)) < Len(buf)
           /\ Found(buf) \in Seq(FrameEvent)
<1>1. Len(buf) \in Nat /\ HeaderSize \in Nat \ {0}
  BY LenProperties, FramingAssumption
<1>2. frameLen(buf) \in Nat
  BY FrameLenType DEF Empty, Whole
<1>3. Size(buf) \in 1 .. Len(buf)
  BY <1>1, <1>2 DEF Empty, Whole, Size
<1>4. /\ Len(buf) \in 0 .. Len(buf) /\ Size(buf) + 1 <= Len(buf) + 1
      /\ Size(buf) + 1 \in Nat \ {0}
  BY <1>1, <1>3
<1>5. Rest(buf) \in Seq(Nat) /\ Len(Rest(buf)) = Len(buf) - (Size(buf) + 1) + 1
  BY <1>4, Slice DEF Rest
<1>6. Found(buf) \in Seq(FrameEvent)
  <2>1. Size(buf) \in 0 .. Len(buf) /\ 1 <= Size(buf) + 1 /\ 1 \in Nat \ {0}
    BY <1>1, <1>3
  <2>2. SubSeq(buf, 1, Size(buf)) \in Seq(Nat)
    BY <2>1, Slice
  <2>3. \/ parseFullFrame(SubSeq(buf, 1, Size(buf))) = Bad
        \/ parseFullFrame(SubSeq(buf, 1, Size(buf))) \in FrameEvent
    BY <2>2, FrameType
  <2> QED
    BY <2>3 DEF Found
<1> QED
  BY <1>1, <1>3, <1>5, <1>6

\* More bytes change nothing of it.
LEMMA RestKept ==
    ASSUME NEW buf \in Seq(Nat), NEW more \in Seq(Nat)
    PROVE  /\ Empty(buf) => /\ Empty(buf \o more) /\ Rest(buf \o more) = Rest(buf) \o more
                            /\ Found(buf \o more) = Found(buf)
           /\ Whole(buf) => /\ Whole(buf \o more) /\ Rest(buf \o more) = Rest(buf) \o more
                            /\ Found(buf \o more) = Found(buf)
           /\ Partial(buf) => Partial(buf \o more) \/ Whole(buf \o more)
           /\ Len(buf) >= HeaderSize => Size(buf \o more) = Size(buf)
<1>1. /\ buf \o more \in Seq(Nat) /\ Len(buf \o more) = Len(buf) + Len(more)
      /\ Len(buf) \in Nat /\ Len(more) \in Nat /\ HeaderSize \in Nat
  BY ConcatProperties, LenProperties, FramingAssumption
<1> SUFFICES ASSUME Len(buf) >= HeaderSize
             PROVE  /\ Empty(buf) => /\ Empty(buf \o more)
                                     /\ Rest(buf \o more) = Rest(buf) \o more
                                     /\ Found(buf \o more) = Found(buf)
                    /\ Whole(buf) => /\ Whole(buf \o more)
                                     /\ Rest(buf \o more) = Rest(buf) \o more
                                     /\ Found(buf \o more) = Found(buf)
                    /\ Partial(buf) => Partial(buf \o more) \/ Whole(buf \o more)
                    /\ Size(buf \o more) = Size(buf)
  BY DEF Empty, Whole, Partial
<1>2. /\ frameLen(buf \o more) = frameLen(buf) /\ frameLen(buf) \in Nat
      /\ Size(buf \o more) = Size(buf) /\ Size(buf) \in Nat
      /\ Len(buf \o more) >= HeaderSize
  BY <1>1, FrameLenKept, FrameLenType DEF Size
<1>3. /\ Empty(buf) => Empty(buf \o more)
      /\ Whole(buf) => Whole(buf \o more)
      /\ Partial(buf) => Partial(buf \o more) \/ Whole(buf \o more)
  BY <1>1, <1>2 DEF Empty, Whole, Partial
<1>4. ASSUME Empty(buf) \/ Whole(buf)
      PROVE  Rest(buf \o more) = Rest(buf) \o more /\ Found(buf \o more) = Found(buf)
  <2>1. Size(buf) \in 0 .. Len(buf)
    BY <1>4, RestType
  <2>2. /\ SubSeq(buf \o more, 1, Size(buf)) = SubSeq(buf, 1, Size(buf))
        /\ SubSeq(buf \o more, Size(buf) + 1, Len(buf \o more))
             = SubSeq(buf, Size(buf) + 1, Len(buf)) \o more
    BY <2>1, HeadAndRest
  <2> QED
    BY <1>2, <2>2 DEF Rest, Found
<1> QED
  BY <1>2, <1>3, <1>4

\* The fields of a state of the loop.
LEMMA StFields ==
    ASSUME NEW b, NEW e, NEW v, NEW d
    PROVE  /\ St(b, e, v, d).buf = b /\ St(b, e, v, d).empties = e
           /\ St(b, e, v, d).events = v /\ St(b, e, v, d).do = d
  BY DEF St

\* A state of the loop is what its fields make it.
LEMMA StType ==
    /\ \A b \in Seq(Nat), e \in Nat, v \in Seq(FrameEvent), d \in {"more", "wait", "guard"} :
          St(b, e, v, d) \in LoopState
    /\ \A s \in LoopState : /\ s.buf \in Seq(Nat) /\ s.empties \in Nat
                            /\ s.events \in Seq(FrameEvent)
                            /\ s.do \in {"more", "wait", "guard"}
                            /\ s = St(s.buf, s.empties, s.events, s.do)
<1>1. LoopState = [buf : Seq(Nat), empties : Nat, do : {"more", "wait", "guard"},
                   events : Seq(FrameEvent)]
  BY DEF LoopState, FrameEvent
<1> QED
  BY <1>1 DEF St

\* One pass.
LEMMA Pass ==
    ASSUME NEW b \in Seq(Nat), NEW e \in Nat, NEW v \in Seq(FrameEvent)
    PROVE  LET s == St(b, e, v, "more")
           IN  /\ TooShort(b) => Iteration(s) = St(b, e, v, "wait")
               /\ Empty(b) => Iteration(s) = IF e + 1 > MaxEmptyFrames
                                             THEN St(b, e + 1, v, "guard")
                                             ELSE St(Rest(b), e + 1, v, "more")
               /\ TooLarge(b) => Iteration(s) = St(b, 0, v, "guard")
               /\ Partial(b) => Iteration(s) = St(b, 0, v, "wait")
               /\ Whole(b) => Iteration(s) = St(Rest(b), 0, v \o Found(b), "more")
<1> DEFINE s == St(b, e, v, "more")
<1>1. Len(b) \in Nat /\ HeaderSize \in Nat /\ MaxFrameSize \in Nat \ {0}
  BY LenProperties, FramingAssumption
<1>2. s.buf = b /\ s.empties = e /\ s.events = v
  BY StFields
<1> DEFINE event == parseFullFrame(SubSeq(b, 1, Size(b)))
           longer == IF event = Bad THEN v ELSE Append(v, event)
<1>3. Iteration(s) =
        CASE Len(b) < HeaderSize -> [s EXCEPT !.do = "wait"]
          [] Len(b) >= HeaderSize /\ frameLen(b) = 0 ->
               IF e + 1 > MaxEmptyFrames
               THEN [s EXCEPT !.empties = e + 1, !.do = "guard"]
               ELSE [s EXCEPT !.empties = e + 1, !.buf = Rest(b)]
          [] Len(b) >= HeaderSize /\ frameLen(b) > MaxFrameSize ->
               [s EXCEPT !.empties = 0, !.do = "guard"]
          [] Len(b) >= HeaderSize /\ frameLen(b) \in 1 .. MaxFrameSize ->
               IF Len(b) < Size(b) THEN [s EXCEPT !.empties = 0, !.do = "wait"]
               ELSE [s EXCEPT !.empties = 0, !.buf = Rest(b), !.events = longer]
  BY <1>2, Zenon DEF Iteration, Size, Rest
<1>4. /\ [s EXCEPT !.do = "wait"] = St(b, e, v, "wait")
      /\ [s EXCEPT !.empties = e + 1, !.do = "guard"] = St(b, e + 1, v, "guard")
      /\ [s EXCEPT !.empties = e + 1, !.buf = Rest(b)] = St(Rest(b), e + 1, v, "more")
      /\ [s EXCEPT !.empties = 0, !.do = "guard"] = St(b, 0, v, "guard")
      /\ [s EXCEPT !.empties = 0, !.do = "wait"] = St(b, 0, v, "wait")
      /\ [s EXCEPT !.empties = 0, !.buf = Rest(b), !.events = longer]
           = St(Rest(b), 0, longer, "more")
  <2>1. [s EXCEPT !.do = "wait"] = St(b, e, v, "wait")
    BY DEF St
  <2> HIDE DEF longer
  <2>2. [s EXCEPT !.empties = e + 1, !.do = "guard"] = St(b, e + 1, v, "guard")
    <3>1. St(b, e + 1, v, "more") = [s EXCEPT !.empties = e + 1]
      BY DEF St
    <3>2. St(b, e + 1, v, "guard") = [St(b, e + 1, v, "more") EXCEPT !.do = "guard"]
      BY DEF St
    <3> QED
      BY <3>1, <3>2, Zenon
  <2>3. [s EXCEPT !.empties = e + 1, !.buf = Rest(b)] = St(Rest(b), e + 1, v, "more")
    <3>1. St(b, e + 1, v, "more") = [s EXCEPT !.empties = e + 1]
      BY DEF St
    <3>2. St(Rest(b), e + 1, v, "more") = [St(b, e + 1, v, "more") EXCEPT !.buf = Rest(b)]
      BY DEF St
    <3> QED
      BY <3>1, <3>2, Zenon
  <2>4. [s EXCEPT !.empties = 0, !.do = "guard"] = St(b, 0, v, "guard")
    <3>1. St(b, 0, v, "more") = [s EXCEPT !.empties = 0]
      BY DEF St
    <3>2. St(b, 0, v, "guard") = [St(b, 0, v, "more") EXCEPT !.do = "guard"]
      BY DEF St
    <3> QED
      BY <3>1, <3>2, Zenon
  <2>5. [s EXCEPT !.empties = 0, !.do = "wait"] = St(b, 0, v, "wait")
    <3>1. St(b, 0, v, "more") = [s EXCEPT !.empties = 0]
      BY DEF St
    <3>2. St(b, 0, v, "wait") = [St(b, 0, v, "more") EXCEPT !.do = "wait"]
      BY DEF St
    <3> QED
      BY <3>1, <3>2, Zenon
  <2>6. [s EXCEPT !.empties = 0, !.buf = Rest(b), !.events = longer]
          = St(Rest(b), 0, longer, "more")
    <3>1. St(b, 0, v, "more") = [s EXCEPT !.empties = 0]
      BY DEF St
    <3>2. St(Rest(b), 0, v, "more") = [St(b, 0, v, "more") EXCEPT !.buf = Rest(b)]
      BY DEF St
    <3>3. St(Rest(b), 0, longer, "more") = [St(Rest(b), 0, v, "more") EXCEPT !.events = longer]
      BY DEF St
    <3> QED
      BY <3>1, <3>2, <3>3, Zenon
  <2> QED
    BY <2>1, <2>2, <2>3, <2>4, <2>5, <2>6
<1>5. Found(b) = IF event = Bad THEN << >> ELSE <<event>>
  BY DEF Found
<1> HIDE DEF event
<1>6. Whole(b) => longer = v \o Found(b)
  <2> SUFFICES ASSUME Whole(b) PROVE longer = v \o Found(b)
    OBVIOUS
  <2>1. Found(b) \in Seq(FrameEvent)
    BY RestType
  <2>2. CASE event = Bad
    BY <1>5, <2>2
  <2>3. CASE event # Bad
    <3>1. event \in FrameEvent /\ Found(b) = <<event>>
      BY <1>5, <2>1, <2>3
    <3> QED
      BY <2>3, <3>1
  <2> QED
    BY <2>2, <2>3
<1> HIDE DEF longer
<1> HIDE DEF s
<1>7. CASE TooShort(b)
  <2>1. Iteration(s) = [s EXCEPT !.do = "wait"]
    BY <1>1, <1>3, <1>7 DEF TooShort
  <2> QED
    BY <1>1, <1>4, <1>7, <2>1 DEF TooShort, Empty, TooLarge, Partial, Whole, s
<1>8. CASE Len(b) >= HeaderSize
  <2>1. frameLen(b) \in Nat /\ ~TooShort(b)
    BY <1>1, <1>8, FrameLenType DEF TooShort
  <2>2. CASE Empty(b)
    <3>1. Iteration(s) = IF e + 1 > MaxEmptyFrames
                         THEN [s EXCEPT !.empties = e + 1, !.do = "guard"]
                         ELSE [s EXCEPT !.empties = e + 1, !.buf = Rest(b)]
      BY <1>1, <1>3, <2>1, <2>2 DEF Empty
    <3>2. ~TooLarge(b) /\ ~Partial(b) /\ ~Whole(b)
      BY <1>1, <2>1, <2>2 DEF Empty, TooLarge, Partial, Whole
    <3> QED
      BY <1>4, <2>1, <3>1, <3>2 DEF s
  <2>3. CASE TooLarge(b)
    <3>1. Iteration(s) = [s EXCEPT !.empties = 0, !.do = "guard"]
      BY <1>1, <1>3, <2>1, <2>3 DEF TooLarge
    <3>2. ~Empty(b) /\ ~Partial(b) /\ ~Whole(b)
      BY <1>1, <2>1, <2>3 DEF Empty, TooLarge, Partial, Whole
    <3> QED
      BY <1>4, <2>1, <3>1, <3>2 DEF s
  <2>4. CASE Partial(b)
    <3>1. Iteration(s) = [s EXCEPT !.empties = 0, !.do = "wait"]
      BY <1>1, <1>3, <2>1, <2>4 DEF Partial
    <3>2. ~Empty(b) /\ ~TooLarge(b) /\ ~Whole(b)
      BY <1>1, <2>1, <2>4 DEF Empty, TooLarge, Partial, Whole, Size
    <3> QED
      BY <1>4, <2>1, <3>1, <3>2 DEF s
  <2>5. CASE Whole(b)
    <3>1. Iteration(s) = [s EXCEPT !.empties = 0, !.buf = Rest(b), !.events = longer]
      BY <1>1, <1>3, <2>1, <2>5 DEF Whole, Size
    <3>2. ~Empty(b) /\ ~TooLarge(b) /\ ~Partial(b)
      BY <1>1, <2>1, <2>5 DEF Empty, TooLarge, Partial, Whole, Size
    <3> QED
      BY <1>4, <1>6, <2>1, <2>5, <3>1, <3>2 DEF s
  <2> QED
    BY <2>1, <2>2, <2>3, <2>4, <2>5, Cases
<1> QED
  BY <1>1, <1>7, <1>8 DEF TooShort

\* The loop ends, and its result is that of the state after one pass.
LEMMA LoopRecursion ==
    ASSUME NEW s \in LoopState
    PROVE  Loop[s] = IF s.do = "more" THEN Loop[Iteration(s)] ELSE s
<1> DEFINE end == {t \in LoopState : t.do # "more"}
           pass == [t \in LoopState |-> IF t.do = "more" THEN Iteration(t) ELSE t]
           left == [t \in LoopState |-> IF t.do = "more" THEN Len(t.buf) + 1 ELSE 0]
<1>1. ASSUME NEW t \in LoopState, t.do = "more"
      PROVE  /\ Iteration(t) \in LoopState
             /\ Iteration(t).do = "more" => Len(Iteration(t).buf) < Len(t.buf)
  <2>1. PICK b \in Seq(Nat), e \in Nat, v \in Seq(FrameEvent) : t = St(b, e, v, "more")
    BY <1>1, StType
  <2>2. e + 1 \in Nat /\ 0 \in Nat /\ t.buf = b
    BY <2>1, StFields
  <2>3. CASE TooShort(b)
    <3>1. Iteration(t) = St(b, e, v, "wait")
      BY <2>1, <2>3, Pass
    <3> QED
      BY <3>1, StType, StFields
  <2>4. CASE Empty(b)
    <3>1. Iteration(t) = IF e + 1 > MaxEmptyFrames THEN St(b, e + 1, v, "guard")
                         ELSE St(Rest(b), e + 1, v, "more")
      BY <2>1, <2>4, Pass
    <3>2. Rest(b) \in Seq(Nat) /\ Len(Rest(b)) < Len(b)
      BY <2>4, RestType
    <3>3. CASE e + 1 > MaxEmptyFrames
      <4>1. Iteration(t) = St(b, e + 1, v, "guard")
        BY <3>1, <3>3
      <4> QED
        BY <2>2, <4>1, StType, StFields
    <3>4. CASE ~(e + 1 > MaxEmptyFrames)
      <4>1. Iteration(t) = St(Rest(b), e + 1, v, "more")
        BY <3>1, <3>4
      <4> QED
        BY <2>2, <3>2, <4>1, StType, StFields
    <3> QED
      BY <3>3, <3>4
  <2>5. CASE TooLarge(b)
    <3>1. Iteration(t) = St(b, 0, v, "guard")
      BY <2>1, <2>5, Pass
    <3> QED
      BY <2>2, <3>1, StType, StFields
  <2>6. CASE Partial(b)
    <3>1. Iteration(t) = St(b, 0, v, "wait")
      BY <2>1, <2>6, Pass
    <3> QED
      BY <2>2, <3>1, StType, StFields
  <2>7. CASE Whole(b)
    <3>1. Iteration(t) = St(Rest(b), 0, v \o Found(b), "more")
      BY <2>1, <2>7, Pass
    <3>2. /\ Rest(b) \in Seq(Nat) /\ Len(Rest(b)) < Len(b)
          /\ v \o Found(b) \in Seq(FrameEvent)
      BY <2>7, RestType, ConcatProperties
    <3>3. Iteration(t) \in LoopState
      <4>1. \A w \in Seq(FrameEvent) : St(Rest(b), 0, w, "more") \in LoopState
        BY <2>2, <3>2, StType
      <4> QED
        BY <3>1, <3>2, <4>1, Zenon
    <3>4. Iteration(t).buf = Rest(b)
      BY <3>1, StFields
    <3> QED
      BY <2>2, <3>2, <3>3, <3>4
  <2> QED
    BY <2>3, <2>4, <2>5, <2>6, <2>7, Cases
<1>2. pass \in [LoopState -> LoopState] /\ end \in SUBSET LoopState
  BY <1>1
<1>3. left \in [LoopState -> Nat]
  <2>1. \A t \in LoopState : Len(t.buf) \in Nat
    BY StType, LenProperties
  <2> QED
    BY <2>1
<1>4. ASSUME NEW t \in LoopState \ end PROVE left[pass[t]] < left[t]
  <2>1. t.do = "more" /\ pass[t] = Iteration(t) /\ Iteration(t) \in LoopState
    BY <1>1
  <2>2. /\ left[t] = Len(t.buf) + 1 /\ Len(t.buf) \in Nat
        /\ Len(Iteration(t).buf) \in Nat
        /\ left[Iteration(t)] = IF Iteration(t).do = "more" THEN Len(Iteration(t).buf) + 1 ELSE 0
    BY <2>1, StType, LenProperties
  <2>3. Iteration(t).do = "more" => Len(Iteration(t).buf) < Len(t.buf)
    BY <1>1, <2>1
  <2> HIDE DEF left, pass
  <2> QED
    BY <2>1, <2>2, <2>3
<1>5. PICK g : g = [t \in LoopState |-> IF t \in end THEN t ELSE g[pass[t]]]
  <2> HIDE DEF left, pass, end
  <2> QED
    BY <1>2, <1>3, <1>4, LoopExists
<1>6. g = [t \in LoopState |-> IF t.do = "more" THEN g[Iteration(t)] ELSE t]
  <2>1. \A t \in LoopState : (IF t \in end THEN t ELSE g[pass[t]])
                               = IF t.do = "more" THEN g[Iteration(t)] ELSE t
    OBVIOUS
  <2> HIDE DEF end, pass
  <2> QED
    BY <1>5, <2>1
<1>7. Loop = CHOOSE h : h = [t \in LoopState |-> IF t.do = "more" THEN h[Iteration(t)] ELSE t]
  BY DEF Loop
<1>8. Loop = [t \in LoopState |-> IF t.do = "more" THEN Loop[Iteration(t)] ELSE t]
  BY <1>6, <1>7
<1> HIDE DEF Loop
<1> QED
  BY <1>8

\* The same, by the frame at the head of the buffer.
LEMMA ResultCases ==
    ASSUME NEW b \in Seq(Nat), NEW e \in Nat, NEW v \in Seq(FrameEvent)
    PROVE  /\ TooShort(b) => Result(b, e, v) = St(b, e, v, "wait")
           /\ Empty(b) => Result(b, e, v) = IF e + 1 > MaxEmptyFrames
                                            THEN St(b, e + 1, v, "guard")
                                            ELSE Result(Rest(b), e + 1, v)
           /\ TooLarge(b) => Result(b, e, v) = St(b, 0, v, "guard")
           /\ Partial(b) => Result(b, e, v) = St(b, 0, v, "wait")
           /\ Whole(b) => Result(b, e, v) = Result(Rest(b), 0, v \o Found(b))
<1> DEFINE s == St(b, e, v, "more")
<1>1. s \in LoopState /\ s.do = "more"
  BY StType, StFields
<1>2. Result(b, e, v) = Loop[Iteration(s)]
  BY <1>1, LoopRecursion DEF Result
<1>3. e + 1 \in Nat /\ 0 \in Nat
  OBVIOUS
<1>4. ASSUME NEW x \in Nat, NEW d \in {"wait", "guard"} PROVE Loop[St(b, x, v, d)] = St(b, x, v, d)
  <2>1. St(b, x, v, d) \in LoopState /\ St(b, x, v, d).do = d
    BY StType, StFields
  <2> QED
    BY <2>1, LoopRecursion
<1>5. TooShort(b) => Result(b, e, v) = St(b, e, v, "wait")
  <2>1. TooShort(b) => Iteration(s) = St(b, e, v, "wait")
    BY Pass
  <2> QED
    BY <1>2, <1>4, <2>1
<1>6. Empty(b) => Result(b, e, v) = IF e + 1 > MaxEmptyFrames THEN St(b, e + 1, v, "guard")
                                    ELSE Result(Rest(b), e + 1, v)
  <2>1. Empty(b) => Iteration(s) = IF e + 1 > MaxEmptyFrames THEN St(b, e + 1, v, "guard")
                                   ELSE St(Rest(b), e + 1, v, "more")
    BY Pass
  <2>2. Loop[St(b, e + 1, v, "guard")] = St(b, e + 1, v, "guard")
    BY <1>3, <1>4
  <2> QED
    BY <1>2, <2>1, <2>2 DEF Result
<1>7. TooLarge(b) => Result(b, e, v) = St(b, 0, v, "guard")
  <2>1. TooLarge(b) => Iteration(s) = St(b, 0, v, "guard")
    BY Pass
  <2> QED
    BY <1>2, <1>4, <2>1
<1>8. Partial(b) => Result(b, e, v) = St(b, 0, v, "wait")
  <2>1. Partial(b) => Iteration(s) = St(b, 0, v, "wait")
    BY Pass
  <2> QED
    BY <1>2, <1>4, <2>1
<1>9. Whole(b) => Result(b, e, v) = Result(Rest(b), 0, v \o Found(b))
  <2>1. Whole(b) => Iteration(s) = St(Rest(b), 0, v \o Found(b), "more")
    BY Pass
  <2> QED
    BY <1>2, <2>1 DEF Result
<1> QED
  BY <1>5, <1>6, <1>7, <1>8, <1>9

\* A property of the results of all shorter buffers that carries over to a buffer
\* holds of every buffer.
LEMMA ByLength ==
    ASSUME NEW Q \in SUBSET Seq(Nat),
           \A b \in Seq(Nat) : (\A c \in Seq(Nat) : Len(c) < Len(b) => c \in Q) => b \in Q
    PROVE  Q = Seq(Nat)
<1> DEFINE Failing == {Len(b) : b \in Seq(Nat) \ Q}
<1> SUFFICES ASSUME Q # Seq(Nat) PROVE FALSE
  OBVIOUS
<1>1. Failing # {} /\ Failing \in SUBSET Nat
  <2>1. Failing # {}
    <3>1. PICK b : b \in Seq(Nat) \ Q
      OBVIOUS
    <3>2. Len(b) \in Failing
      BY <3>1
    <3> QED
      BY <3>2
  <2>2. Failing \in SUBSET Nat
    <3>1. \A c \in Seq(Nat) \ Q : Len(c) \in Nat
      BY LenProperties
    <3> QED
      BY <3>1
  <2> QED
    BY <2>1, <2>2
<1>2. PICK i \in Failing : \A j \in Failing : i <= j
  BY <1>1, LeastNumber
<1>3. PICK b \in Seq(Nat) \ Q : Len(b) = i
  BY <1>2
<1>4. ASSUME NEW c \in Seq(Nat), Len(c) < Len(b) PROVE c \in Q
  <2>1. Len(b) \in Nat /\ Len(c) \in Nat
    BY LenProperties
  <2>2. c \notin Q => Len(c) \in Failing
    OBVIOUS
  <2>3. c \notin Q => Len(b) <= Len(c)
    BY <1>2, <1>3, <2>2
  <2> QED
    BY <1>4, <2>1, <2>3
<1> QED
  BY <1>3, <1>4

\* The loop ends with the buffer to keep, or with a limit broken.
LEMMA ResultType ==
    \A b \in Seq(Nat), e \in Nat, v \in Seq(FrameEvent) :
        Result(b, e, v) \in LoopState /\ Result(b, e, v).do \in {"wait", "guard"}
<1> DEFINE Good(r) == r \in LoopState /\ r.do \in {"wait", "guard"}
           Q == {b \in Seq(Nat) : \A e \in Nat, v \in Seq(FrameEvent) : Good(Result(b, e, v))}
<1>1. ASSUME NEW b \in Seq(Nat), NEW x \in Nat, NEW v \in Seq(FrameEvent),
             NEW d \in {"wait", "guard"}
      PROVE  Good(St(b, x, v, d))
  BY StType, StFields
<1>2. ASSUME NEW b \in Seq(Nat), \A c \in Seq(Nat) : Len(c) < Len(b) => c \in Q,
             NEW e \in Nat, NEW v \in Seq(FrameEvent)
      PROVE  Good(Result(b, e, v))
  <2> HIDE DEF Good
  <2>1. e + 1 \in Nat /\ 0 \in Nat
    OBVIOUS
  <2>2. CASE TooShort(b)
    BY <1>1, <2>2, ResultCases
  <2>3. CASE Empty(b)
    <3>1. Rest(b) \in Q
      BY <1>2, <2>3, RestType
    <3>2. Good(Result(Rest(b), e + 1, v)) /\ Good(St(b, e + 1, v, "guard"))
      BY <1>1, <2>1, <3>1
    <3> QED
      BY <2>3, <3>2, ResultCases
  <2>4. CASE TooLarge(b)
    BY <1>1, <2>1, <2>4, ResultCases
  <2>5. CASE Partial(b)
    BY <1>1, <2>1, <2>5, ResultCases
  <2>6. CASE Whole(b)
    <3>1. Rest(b) \in Q /\ v \o Found(b) \in Seq(FrameEvent)
      BY <1>2, <2>6, RestType, ConcatProperties
    <3>2. Good(Result(Rest(b), 0, v \o Found(b)))
      BY <2>1, <3>1
    <3> QED
      BY <2>6, <3>2, ResultCases
  <2> QED
    BY <2>2, <2>3, <2>4, <2>5, <2>6, Cases
<1>3. \A b \in Seq(Nat) : (\A c \in Seq(Nat) : Len(c) < Len(b) => c \in Q) => b \in Q
  BY <1>2
<1>4. Q = Seq(Nat)
  <2> HIDE DEF Q
  <2>1. Q \in SUBSET Seq(Nat)
    BY DEF Q
  <2> QED
    BY <1>3, <2>1, ByLength
<1> QED
  BY <1>4

\* What was found before does not matter.
LEMMA ResultAfter ==
    \A b \in Seq(Nat), e \in Nat, p, v \in Seq(FrameEvent) :
        LET r == Result(b, e, v)
        IN  Result(b, e, p \o v) = St(r.buf, r.empties, p \o r.events, r.do)
<1> DEFINE After(p, r) == St(r.buf, r.empties, p \o r.events, r.do)
           Q == {b \in Seq(Nat) : \A e \in Nat, p, v \in Seq(FrameEvent) :
                                    Result(b, e, p \o v) = After(p, Result(b, e, v))}
<1>1. ASSUME NEW p, NEW b, NEW x, NEW v, NEW d
      PROVE  After(p, St(b, x, v, d)) = St(b, x, p \o v, d)
  BY StFields
<1> HIDE DEF After
<1>2. ASSUME NEW b \in Seq(Nat), \A c \in Seq(Nat) : Len(c) < Len(b) => c \in Q,
             NEW e \in Nat, NEW p \in Seq(FrameEvent), NEW v \in Seq(FrameEvent)
      PROVE  Result(b, e, p \o v) = After(p, Result(b, e, v))
  <2>1. e + 1 \in Nat /\ 0 \in Nat /\ p \o v \in Seq(FrameEvent)
    BY ConcatProperties
  <2> DEFINE w == p \o v
  <2>2. w \in Seq(FrameEvent)
    BY <2>1
  <2>3. CASE TooShort(b)
    <3>1. Result(b, e, v) = St(b, e, v, "wait")
      BY <2>3, ResultCases
    <3>2. Result(b, e, w) = St(b, e, w, "wait")
      <4> HIDE DEF w
      <4> QED
        BY <2>2, <2>3, ResultCases
    <3> QED
      BY <1>1, <3>1, <3>2
  <2>4. CASE Empty(b)
    <3>1. Rest(b) \in Seq(Nat) /\ Rest(b) \in Q
      BY <1>2, <2>4, RestType
    <3>2. Result(Rest(b), e + 1, w) = After(p, Result(Rest(b), e + 1, v))
      BY <2>1, <3>1
    <3>3. Result(b, e, v) = IF e + 1 > MaxEmptyFrames THEN St(b, e + 1, v, "guard")
                            ELSE Result(Rest(b), e + 1, v)
      BY <2>4, ResultCases
    <3>4. Result(b, e, w) = IF e + 1 > MaxEmptyFrames THEN St(b, e + 1, w, "guard")
                            ELSE Result(Rest(b), e + 1, w)
      <4> HIDE DEF w
      <4> QED
        BY <2>2, <2>4, ResultCases
    <3>5. After(p, St(b, e + 1, v, "guard")) = St(b, e + 1, w, "guard")
      BY <1>1
    <3> HIDE DEF w, Q
    <3> QED
      BY <3>2, <3>3, <3>4, <3>5 DEF w
  <2>5. CASE TooLarge(b)
    <3>1. Result(b, e, v) = St(b, 0, v, "guard")
      BY <2>5, ResultCases
    <3>2. Result(b, e, w) = St(b, 0, w, "guard")
      <4> HIDE DEF w
      <4> QED
        BY <2>2, <2>5, ResultCases
    <3> QED
      BY <1>1, <3>1, <3>2
  <2>6. CASE Partial(b)
    <3>1. Result(b, e, v) = St(b, 0, v, "wait")
      BY <2>6, ResultCases
    <3>2. Result(b, e, w) = St(b, 0, w, "wait")
      <4> HIDE DEF w
      <4> QED
        BY <2>2, <2>6, ResultCases
    <3> QED
      BY <1>1, <3>1, <3>2
  <2>7. CASE Whole(b)
    <3> DEFINE f == Found(b)
    <3>1. /\ Rest(b) \in Seq(Nat) /\ Rest(b) \in Q /\ f \in Seq(FrameEvent)
          /\ v \o f \in Seq(FrameEvent)
      BY <1>2, <2>7, RestType, ConcatProperties
    <3>2. Result(Rest(b), 0, p \o (v \o f)) = After(p, Result(Rest(b), 0, v \o f))
      <4>1. \A x \in Nat, u, y \in Seq(FrameEvent) :
               Result(Rest(b), x, u \o y) = After(u, Result(Rest(b), x, y))
        BY <3>1
      <4> HIDE DEF Q
      <4> QED
        BY <2>1, <3>1, <4>1
    <3>3. Result(b, e, v) = Result(Rest(b), 0, v \o f)
      BY <2>7, ResultCases
    <3>4. Result(b, e, w) = Result(Rest(b), 0, w \o f)
      <4>1. \A u \in Seq(FrameEvent) : Result(b, e, u) = Result(Rest(b), 0, u \o Found(b))
        BY <2>7, ResultCases
      <4> HIDE DEF w
      <4> QED
        BY <2>2, <4>1
    <3> HIDE DEF f, Q
    <3>5. w \o f = p \o (v \o f)
      BY <3>1, ConcatAssociative
    <3> QED
      BY <3>2, <3>3, <3>4, <3>5
  <2> QED
    BY <2>3, <2>4, <2>5, <2>6, <2>7, Cases
<1>3. \A b \in Seq(Nat) : (\A c \in Seq(Nat) : Len(c) < Len(b) => c \in Q) => b \in Q
  BY <1>2
<1>4. Q = Seq(Nat)
  <2> HIDE DEF Q
  <2>1. Q \in SUBSET Seq(Nat)
    BY DEF Q
  <2> QED
    BY <1>3, <2>1, ByLength
<1> QED
  BY <1>4 DEF After

\* Bytes that come later continue where the loop stopped to wait for them.
LEMMA ResultContinued ==
    \A b, more \in Seq(Nat), e \in Nat, v \in Seq(FrameEvent) :
        LET r == Result(b, e, v)
        IN  r.do = "wait" => Result(b \o more, e, v) = Result(r.buf \o more, r.empties, r.events)
<1> SUFFICES ASSUME NEW more \in Seq(Nat)
             PROVE  \A b \in Seq(Nat), e \in Nat, v \in Seq(FrameEvent) :
                      LET r == Result(b, e, v)
                      IN  r.do = "wait" => Result(b \o more, e, v)
                                             = Result(r.buf \o more, r.empties, r.events)
  OBVIOUS
<1> DEFINE Continues(b, e, v, r) ==
             r.do = "wait" => Result(b \o more, e, v) = Result(r.buf \o more, r.empties, r.events)
           Q == {b \in Seq(Nat) : \A e \in Nat, v \in Seq(FrameEvent) :
                                    Continues(b, e, v, Result(b, e, v))}
<1>1. ASSUME NEW b \in Seq(Nat), \A c \in Seq(Nat) : Len(c) < Len(b) => c \in Q,
             NEW e \in Nat, NEW v \in Seq(FrameEvent)
      PROVE  Continues(b, e, v, Result(b, e, v))
  <2>1. e + 1 \in Nat /\ 0 \in Nat /\ b \o more \in Seq(Nat)
    BY ConcatProperties
  <2> DEFINE a == b \o more
  <2>2. a \in Seq(Nat)
    BY <2>1
  <2>3. CASE TooShort(b)
    <3>1. Result(b, e, v) = St(b, e, v, "wait")
      BY <2>3, ResultCases
    <3> QED
      BY <3>1, StFields
  <2>4. CASE Empty(b)
    <3>1. Rest(b) \in Seq(Nat) /\ Rest(b) \in Q
      BY <1>1, <2>4, RestType
    <3>2. Continues(Rest(b), e + 1, v, Result(Rest(b), e + 1, v))
      BY <2>1, <3>1
    <3>3. Result(b, e, v) = IF e + 1 > MaxEmptyFrames THEN St(b, e + 1, v, "guard")
                            ELSE Result(Rest(b), e + 1, v)
      BY <2>4, ResultCases
    <3>4. Empty(a) /\ Rest(a) = Rest(b) \o more
      BY <2>4, RestKept
    <3>5. Result(a, e, v) = IF e + 1 > MaxEmptyFrames THEN St(a, e + 1, v, "guard")
                            ELSE Result(Rest(a), e + 1, v)
      <4> HIDE DEF a
      <4> QED
        BY <2>2, <3>4, ResultCases
    <3>6. CASE e + 1 > MaxEmptyFrames
      BY <3>3, <3>6, StFields
    <3>7. CASE ~(e + 1 > MaxEmptyFrames)
      <4>1. /\ Result(b, e, v) = Result(Rest(b), e + 1, v)
            /\ Result(a, e, v) = Result(Rest(b) \o more, e + 1, v)
        BY <3>3, <3>4, <3>5, <3>7
      <4> HIDE DEF Q
      <4> QED
        BY <3>2, <4>1
    <3> QED
      BY <3>6, <3>7
  <2>5. CASE TooLarge(b)
    <3>1. Result(b, e, v) = St(b, 0, v, "guard")
      BY <2>5, ResultCases
    <3> QED
      BY <3>1, StFields
  <2>6. CASE Partial(b)
    <3>1. Result(b, e, v) = St(b, 0, v, "wait")
      BY <2>6, ResultCases
    <3>2. Partial(a) \/ Whole(a)
      BY <2>6, RestKept
    <3>3. Result(a, e, v) = Result(a, 0, v)
      <4> HIDE DEF a
      <4>1. CASE Partial(a)
        <5>1. Result(a, e, v) = St(a, 0, v, "wait") /\ Result(a, 0, v) = St(a, 0, v, "wait")
          BY <2>1, <2>2, <4>1, ResultCases
        <5> QED
          BY <5>1
      <4>2. CASE Whole(a)
        <5>1. /\ Result(a, e, v) = Result(Rest(a), 0, v \o Found(a))
              /\ Result(a, 0, v) = Result(Rest(a), 0, v \o Found(a))
          BY <2>1, <2>2, <4>2, ResultCases
        <5> QED
          BY <5>1
      <4> QED
        BY <3>2, <4>1, <4>2
    <3> QED
      BY <3>1, <3>3, StFields
  <2>7. CASE Whole(b)
    <3> DEFINE f == Found(b)
    <3>1. /\ Rest(b) \in Seq(Nat) /\ Rest(b) \in Q /\ f \in Seq(FrameEvent)
          /\ v \o f \in Seq(FrameEvent)
      BY <1>1, <2>7, RestType, ConcatProperties
    <3>2. Continues(Rest(b), 0, v \o f, Result(Rest(b), 0, v \o f))
      <4>1. \A x \in Nat, u \in Seq(FrameEvent) : Continues(Rest(b), x, u, Result(Rest(b), x, u))
        BY <3>1
      <4> HIDE DEF Q, Continues
      <4> QED
        BY <2>1, <3>1, <4>1
    <3>3. Result(b, e, v) = Result(Rest(b), 0, v \o f)
      BY <2>7, ResultCases
    <3>4. Whole(a) /\ Rest(a) = Rest(b) \o more /\ Found(a) = f
      BY <2>7, RestKept
    <3>5. Result(a, e, v) = Result(Rest(a), 0, v \o Found(a))
      <4> HIDE DEF a
      <4> QED
        BY <2>2, <3>4, ResultCases
    <3>6. Result(a, e, v) = Result(Rest(b) \o more, 0, v \o f)
      BY <3>4, <3>5
    <3> HIDE DEF f, Q
    <3> QED
      BY <3>2, <3>3, <3>6
  <2> QED
    BY <2>3, <2>4, <2>5, <2>6, <2>7, Cases
<1>2. \A b \in Seq(Nat) : (\A c \in Seq(Nat) : Len(c) < Len(b) => c \in Q) => b \in Q
  BY <1>1
<1>3. Q = Seq(Nat)
  <2> HIDE DEF Q
  <2>1. Q \in SUBSET Seq(Nat)
    BY DEF Q
  <2> QED
    BY <1>2, <2>1, ByLength
<1> QED
  BY <1>3

\* The loop ends with bytes to keep, a count and frames.
LEMMA ScanType ==
    ASSUME NEW b \in Seq(Nat), NEW e \in Nat
    PROVE  /\ Scan(b, e) \in LoopState
           /\ Scan(b, e).buf \in Seq(Nat) /\ Scan(b, e).empties \in Nat
           /\ Scan(b, e).events \in Seq(FrameEvent) /\ Scan(b, e).do \in {"wait", "guard"}
<1>1. << >> \in Seq(FrameEvent) /\ Scan(b, e) = Result(b, e, << >>)
  BY DEF Scan, Result, St
<1>2. Scan(b, e) \in LoopState /\ Scan(b, e).do \in {"wait", "guard"}
  BY <1>1, ResultType
<1> QED
  BY <1>2, StType

\* Of nothing there is nothing to cut.
LEMMA ScanNothing ==
    ASSUME NEW e \in Nat
    PROVE  Scan(<< >>, e) = St(<< >>, e, << >>, "wait")
<1>1. << >> \in Seq(FrameEvent) /\ << >> \in Seq(Nat) /\ Scan(<< >>, e) = Result(<< >>, e, << >>)
  BY DEF Scan, Result, St
<1>2. TooShort(<< >>)
  BY FramingAssumption DEF TooShort
<1> QED
  BY <1>1, <1>2, ResultCases

\* A stream scanned in two pieces gives the frames of the whole, and ends the same.
LEMMA ScanContinued ==
    ASSUME NEW a \in Seq(Nat), NEW more \in Seq(Nat), NEW e \in Nat, Scan(a, e).do = "wait"
    PROVE  LET old == Scan(a, e)
               new == Scan(old.buf \o more, old.empties)
               whole == Scan(a \o more, e)
           IN  /\ whole.buf = new.buf /\ whole.empties = new.empties /\ whole.do = new.do
               /\ whole.events = old.events \o new.events
<1> DEFINE old == Scan(a, e)
           rest == old.buf \o more
<1>1. << >> \in Seq(FrameEvent)
  OBVIOUS
<1>2. \A b, n : Scan(b, n) = Result(b, n, << >>)
  BY DEF Scan, Result, St
<1>3. /\ old.buf \in Seq(Nat) /\ old.empties \in Nat /\ old.events \in Seq(FrameEvent)
      /\ rest \in Seq(Nat)
  BY ScanType, ConcatProperties
<1>4. Scan(a \o more, e) = Result(rest, old.empties, old.events)
  <2>1. old = Result(a, e, << >>)
    BY <1>2
  <2>2. LET r == Result(a, e, << >>)
        IN  r.do = "wait" => Result(a \o more, e, << >>)
                               = Result(r.buf \o more, r.empties, r.events)
    BY <1>1, ResultContinued
  <2>3. Result(a \o more, e, << >>) = Result(rest, old.empties, old.events)
    BY <2>1, <2>2
  <2> QED
    BY <1>2, <2>3
<1> HIDE DEF old, rest
<1>5. old.events \o << >> = old.events
  BY <1>3, ConcatEmptySeq
<1>6. LET r == Result(rest, old.empties, << >>)
      IN  Result(rest, old.empties, old.events \o << >>)
            = St(r.buf, r.empties, old.events \o r.events, r.do)
  BY <1>1, <1>3, ResultAfter
<1>7. LET new == Scan(rest, old.empties)
      IN  Scan(a \o more, e) = St(new.buf, new.empties, old.events \o new.events, new.do)
  BY <1>2, <1>4, <1>5, <1>6
<1> DEFINE new == Scan(rest, old.empties)
           whole == Scan(a \o more, e)
<1>8. whole = St(new.buf, new.empties, old.events \o new.events, new.do)
  BY <1>7
<1> HIDE DEF new, whole
<1>9. /\ whole.buf = new.buf /\ whole.empties = new.empties /\ whole.do = new.do
      /\ whole.events = old.events \o new.events
  BY <1>8 DEF St
<1> QED
  BY <1>9 DEF rest, old, new, whole

\* The first m elements and the next ones up to n are the first n.
LEMMA FirstAndNext ==
    ASSUME NEW S, NEW s \in Seq(S), NEW n \in 0 .. Len(s), NEW m \in 0 .. n
    PROVE  /\ SubSeq(s, 1, m) \in Seq(S) /\ SubSeq(s, m + 1, n) \in Seq(S)
           /\ SubSeq(s, 1, m) \o SubSeq(s, m + 1, n) = SubSeq(s, 1, n)
<1>1. /\ Len(s) \in Nat /\ m \in 0 .. Len(s) /\ m + 1 <= n + 1
      /\ 1 \in 1 .. Len(s) + 1 /\ m \in 1 - 1 .. Len(s) /\ n \in m .. Len(s)
  BY LenProperties
<1>2. SubSeq(s, 1, m) \in Seq(S) /\ SubSeq(s, m + 1, n) \in Seq(S)
  BY <1>1, Slice
<1> QED
  BY <1>1, <1>2, ConcatAdjacentSubSeq

\* Bytes are numbers.
LEMMA Bytes ==
    ASSUME NEW s \in Seq(0 .. Base - 1)
    PROVE  s \in Seq(Nat)
<1>1. Len(s) \in Nat /\ s \in [1 .. Len(s) -> 0 .. Base - 1]
  BY LenProperties
<1>2. s \in [1 .. Len(s) -> Nat]
  BY <1>1, FramingAssumption
<1> QED
  BY <1>1, <1>2, SeqDef

\* What was found in the first m bytes of a stream and what was found in the bytes
\* kept and the next ones make up what is found in the first n.
LEMMA NextPiece ==
    ASSUME NEW s \in Seq(0 .. Base - 1), NEW n \in 0 .. Len(s), NEW m \in 0 .. n,
           Scan(SubSeq(s, 1, m), 0).do = "wait"
    PROVE  LET old == Scan(SubSeq(s, 1, m), 0)
               new == Scan(old.buf \o SubSeq(s, m + 1, n), old.empties)
               whole == Scan(SubSeq(s, 1, n), 0)
           IN  /\ whole.buf = new.buf /\ whole.empties = new.empties /\ whole.do = new.do
               /\ whole.events = old.events \o new.events
<1> DEFINE a == SubSeq(s, 1, m)
           more == SubSeq(s, m + 1, n)
<1>1. s \in Seq(Nat) /\ 0 \in Nat
  BY Bytes
<1>2. a \in Seq(Nat) /\ more \in Seq(Nat) /\ SubSeq(s, 1, n) = a \o more
  BY <1>1, FirstAndNext
<1> HIDE DEF a, more
<1>3. Scan(a, 0).do = "wait"
  BY DEF a
<1>4. LET old == Scan(a, 0)
          new == Scan(old.buf \o more, old.empties)
          whole == Scan(a \o more, 0)
      IN  /\ whole.buf = new.buf /\ whole.empties = new.empties /\ whole.do = new.do
          /\ whole.events = old.events \o new.events
  BY <1>1, <1>2, <1>3, ScanContinued
<1> QED
  BY <1>2, <1>4 DEF a, more

----------------------------------------------------------------------------
(* Epoll: the descriptors *)

\* What the proofs need to know of the variables' types.
Types == /\ mpc \in {"new", "started", "close", "accept", "workers", "rest", "stopped"}
         /\ apc \in {"none", "test", "accept", "register", "add", "done"}
         /\ afd \in Fd \cup {NoFd} /\ nextWorker \in Worker
         /\ socket \in [Fd -> Conn \cup {NoConn}]
         /\ interest \in [Worker -> SUBSET Fd]
         /\ ready \in [Worker -> SUBSET Fd]
         /\ wpc \in [Worker -> {"none", "test", "wait", "events", "recv", "erase", "close", "done"}]
         /\ batch \in [Worker -> SUBSET (Fd \X BOOLEAN)]
         /\ cur \in [Worker -> Fd \cup {NoFd}]
         /\ DOMAIN connections_ = Fd
         /\ \A fd \in Fd : "clientAddress" \in DOMAIN connections_[fd]

\* Nothing runs before start() and after stop() has joined the threads; then the
\* map is emptied.
Threads == /\ mpc = "new" => apc = "none" /\ WorkersEnded
           /\ mpc \in {"workers", "rest", "stopped"} => apc \in {"none", "done"}
           /\ mpc \in {"rest", "stopped"} => WorkersEnded
           /\ mpc = "stopped" => \A fd \in Fd : connections_[fd] = NoState

\* An entry is that of an open connection.
Entries == \A fd \in Fd : connections_[fd] # NoState =>
               connections_[fd].clientAddress = socket[fd] /\ socket[fd] \in Conn

\* An epoll set holds open connections with an entry, and no two sets the same.
Sets == \A w \in Worker :
          /\ ready[w] \subseteq interest[w]
          /\ \A fd \in interest[w] : socket[fd] \in Conn /\ connections_[fd] # NoState
          /\ \A v \in Worker \ {w} : interest[v] \cap interest[w] = {}

\* The accept thread has a connection no worker knows of.
Accepting == apc \in {"register", "add"} =>
                 /\ afd \in Fd /\ socket[afd] \in Conn
                 /\ connections_[afd] # NoState <=> apc = "add"
                 /\ \A w \in Worker : afd \notin interest[w]

\* The events a worker has yet to handle are of its set, one for a descriptor.
Batches == \A w \in Worker :
             /\ wpc[w] \in {"none", "test", "wait", "done"} => batch[w] = {}
             /\ \A e \in batch[w] : e[1] \in interest[w]
             /\ \A e, f \in batch[w] : e[1] = f[1] => e = f
             /\ wpc[w] \in {"recv", "erase", "close"} => \A e \in batch[w] : e[1] # cur[w]

\* A worker handles a descriptor of its set, and closes one that is in no set
\* and that nobody else has.
Busy == \A w \in Worker :
          /\ wpc[w] \in {"recv", "erase"} => cur[w] \in interest[w]
          /\ wpc[w] = "close" =>
               /\ cur[w] \in Fd /\ socket[cur[w]] \in Conn /\ connections_[cur[w]] = NoState
               /\ \A v \in Worker : cur[w] \notin interest[v]
               /\ \A v \in Worker \ {w} : wpc[v] = "close" => cur[v] # cur[w]
               /\ apc \in {"register", "add"} => cur[w] # afd

\* No connection is open that nobody would close.
Owned == \A fd \in Fd : socket[fd] # NoConn =>
            \/ connections_[fd] # NoState
            \/ apc = "register" /\ afd = fd
            \/ \E w \in Worker : wpc[w] = "close" /\ cur[w] = fd

\* The invariant of the descriptors
EpollInv == Types /\ Threads /\ Entries /\ Sets /\ Accepting /\ Batches /\ Busy /\ Owned

----------------------------------------------------------------------------

\* The descriptor accept() takes was free.
LEMMA FreeFd ==
    ASSUME Free # {}
    PROVE  Min(Free) \in Fd /\ socket[Min(Free)] = NoConn
<1>1. Free \in SUBSET Nat /\ Free \subseteq Fd
  BY DEF Free, Fd
<1>2. Min(Free) \in Free
  BY <1>1, MinInSet
<1> QED
  BY <1>2 DEF Free

\* closeConnection() erases first.
LEMMA ClosingOrder == closeConnection[1] = "erase" /\ closeConnection[2] = "close"
  BY DEF closeConnection

\* A pass over the buffer leaves the client's address alone.
LEMMA ProcessedKeepsAddress ==
    ASSUME NEW state, "clientAddress" \in DOMAIN state, NEW new
    PROVE  /\ "clientAddress" \in DOMAIN Processed(state, new)
           /\ Processed(state, new).clientAddress = state.clientAddress
  BY DEF Processed

LEMMA Constant == NoFd \notin Fd /\ NoConn \notin Conn /\ "clientAddress" \in DOMAIN NoState
  BY EpollAssumption DEF Fd, NoFd, NoState

LEMMA NextWorkerType ==
    ASSUME nextWorker \in Worker
    PROVE  NextWorker \in Worker
  BY EpollAssumption DEF NextWorker, Worker

LEMMA InitEpollInv == Init => EpollInv
<1> SUFFICES ASSUME Init PROVE EpollInv
  OBVIOUS
<1>1. 0 \in Worker
  BY EpollAssumption DEF Worker
<1>2. Types
  BY <1>1 DEF Init, Types, NoState
<1>3. Threads
  BY DEF Init, Threads, WorkersEnded
<1>4. Entries /\ Sets /\ Accepting /\ Batches /\ Busy /\ Owned
  BY DEF Init, Entries, Sets, Accepting, Batches, Busy, Owned
<1> QED
  BY <1>2, <1>3, <1>4 DEF EpollInv

\* start() and stop()
LEMMA StopKeeps ==
    ASSUME EpollInv, Start \/ Stop
    PROVE  EpollInv'
<1>1. CASE Start
  <2>1. Entries' /\ Sets'
    BY <1>1 DEF EpollInv, Entries, Sets, Start, network
  <2>2. Types'
    BY <1>1 DEF EpollInv, Types, Start, network
  <2>3. Threads'
    BY <1>1 DEF EpollInv, Types, Threads, Start, WorkersEnded, network
  <2>4. Accepting'
    BY <1>1 DEF EpollInv, Types, Accepting, Start, network
  <2>5. Batches'
    BY <1>1 DEF EpollInv, Types, Threads, Batches, Start, WorkersEnded, network
  <2>6. Busy'
    BY <1>1 DEF EpollInv, Types, Busy, Start, network
  <2>7. Owned'
    BY <1>1 DEF EpollInv, Types, Threads, Owned, Start, WorkersEnded, network
  <2> QED
    BY <2>1, <2>2, <2>3, <2>4, <2>5, <2>6, <2>7 DEF EpollInv
<1>2. CASE StopFlag
  <2>1. Entries' /\ Sets' /\ Accepting' /\ Batches' /\ Busy' /\ Owned'
    BY <1>2
       DEF EpollInv, Entries, Sets, Accepting, Batches, Busy, Owned, StopFlag, accepting,
           network, workers
  <2>2. Types'
    BY <1>2 DEF EpollInv, Types, StopFlag, accepting, network, workers
  <2>3. Threads'
    BY <1>2 DEF EpollInv, Types, Threads, StopFlag, WorkersEnded, accepting, network, workers
  <2> QED
    BY <2>1, <2>2, <2>3 DEF EpollInv
<1>3. CASE StopClose
  <2>1. Entries' /\ Sets' /\ Accepting' /\ Batches' /\ Busy' /\ Owned'
    BY <1>3
       DEF EpollInv, Entries, Sets, Accepting, Batches, Busy, Owned, StopClose, accepting,
           network, workers
  <2>2. Types'
    BY <1>3 DEF EpollInv, Types, StopClose, accepting, network, workers
  <2>3. Threads'
    BY <1>3 DEF EpollInv, Types, Threads, StopClose, WorkersEnded, accepting, network, workers
  <2> QED
    BY <2>1, <2>2, <2>3 DEF EpollInv
<1>4. CASE StopAccept
  <2>1. Entries' /\ Sets' /\ Accepting' /\ Batches' /\ Busy' /\ Owned'
    BY <1>4
       DEF EpollInv, Entries, Sets, Accepting, Batches, Busy, Owned, StopAccept, accepting,
           network, workers
  <2>2. Types'
    BY <1>4 DEF EpollInv, Types, StopAccept, accepting, network, workers
  <2>3. Threads'
    BY <1>4 DEF EpollInv, Types, Threads, StopAccept, WorkersEnded, accepting, network, workers
  <2> QED
    BY <2>1, <2>2, <2>3 DEF EpollInv
<1>5. CASE StopWorkers
  <2>1. Entries' /\ Sets' /\ Accepting' /\ Batches' /\ Busy' /\ Owned'
    BY <1>5
       DEF EpollInv, Entries, Sets, Accepting, Batches, Busy, Owned, StopWorkers, accepting,
           network, workers
  <2>2. Types'
    BY <1>5 DEF EpollInv, Types, StopWorkers, accepting, network, workers
  <2>3. Threads'
    BY <1>5 DEF EpollInv, Types, Threads, StopWorkers, WorkersEnded, accepting, network, workers
  <2> QED
    BY <2>1, <2>2, <2>3 DEF EpollInv
<1>6. CASE StopRest
  <2>1. Types'
    BY <1>6, Constant DEF EpollInv, Types, StopRest, Close, ToClose, accepting, workers
  <2>2. Threads'
    BY <1>6
       DEF EpollInv, Types, Threads, StopRest, Close, ToClose, WorkersEnded, accepting, workers
  <2>3. Entries'
    BY <1>6 DEF EpollInv, Types, Entries, StopRest, Close, ToClose, accepting, workers
  <2>4. Sets'
    BY <1>6 DEF EpollInv, Types, Sets, StopRest, Close, ToClose, accepting, workers
  <2>5. Accepting'
    BY <1>6
       DEF EpollInv, Types, Threads, Accepting, StopRest, Close, ToClose, WorkersEnded,
           accepting, workers
  <2>6. Batches'
    BY <1>6
       DEF EpollInv, Types, Threads, Batches, StopRest, Close, ToClose, WorkersEnded, accepting,
           workers
  <2>7. Busy'
    BY <1>6
       DEF EpollInv, Types, Threads, Busy, StopRest, Close, ToClose, WorkersEnded, accepting,
           workers
  <2>8. Owned'
    BY <1>6
       DEF EpollInv, Types, Owned, StopRest, Close, ToClose, WorkersEnded, accepting, workers
  <2> QED
    BY <2>1, <2>2, <2>3, <2>4, <2>5, <2>6, <2>7, <2>8 DEF EpollInv
<1> QED
  BY <1>1, <1>2, <1>3, <1>4, <1>5, <1>6 DEF Stop

\* The accept thread
LEMMA AcceptKeeps ==
    ASSUME EpollInv, AcceptThread
    PROVE  EpollInv'
<1>1. CASE AcceptTest
  <2>1. Entries' /\ Sets' /\ Batches'
    BY <1>1 DEF EpollInv, Entries, Sets, Batches, AcceptTest, server, network, workers
  <2>2. Types'
    BY <1>1 DEF EpollInv, Types, AcceptTest, server, network, workers
  <2>3. Threads'
    BY <1>1 DEF EpollInv, Types, Threads, AcceptTest, WorkersEnded, server, network, workers
  <2>4. Accepting'
    BY <1>1 DEF EpollInv, Types, Accepting, AcceptTest, server, network, workers
  <2>5. Busy'
    BY <1>1 DEF EpollInv, Types, Busy, AcceptTest, server, network, workers
  <2>6. Owned'
    BY <1>1 DEF EpollInv, Types, Owned, AcceptTest, server, network, workers
  <2> QED
    BY <2>1, <2>2, <2>3, <2>4, <2>5, <2>6 DEF EpollInv
<1>2. CASE AcceptNone
  <2>1. Entries' /\ Sets' /\ Batches'
    BY <1>2 DEF EpollInv, Entries, Sets, Batches, AcceptNone, server, network, workers
  <2>2. Types'
    BY <1>2 DEF EpollInv, Types, AcceptNone, server, network, workers
  <2>3. Threads'
    BY <1>2 DEF EpollInv, Types, Threads, AcceptNone, WorkersEnded, server, network, workers
  <2>4. Accepting'
    BY <1>2 DEF EpollInv, Types, Accepting, AcceptNone, server, network, workers
  <2>5. Busy'
    BY <1>2 DEF EpollInv, Types, Busy, AcceptNone, server, network, workers
  <2>6. Owned'
    BY <1>2 DEF EpollInv, Types, Owned, AcceptNone, server, network, workers
  <2> QED
    BY <2>1, <2>2, <2>3, <2>4, <2>5, <2>6 DEF EpollInv
<1>3. CASE AcceptRefused
  <2>1. Types'
    BY <1>3 DEF EpollInv, Types, AcceptRefused, Close, server, workers
  <2>2. Threads'
    BY <1>3 DEF EpollInv, Types, Threads, AcceptRefused, Close, WorkersEnded, server, workers
  <2>3. Entries'
    BY <1>3 DEF EpollInv, Types, Entries, Accepting, AcceptRefused, Close, server, workers
  <2>4. Sets'
    BY <1>3 DEF EpollInv, Types, Sets, AcceptRefused, Close, server, workers
  <2>5. Accepting'
    BY <1>3 DEF EpollInv, Types, Accepting, AcceptRefused, Close, server, workers
  <2>6. Batches'
    BY <1>3 DEF EpollInv, Types, Accepting, Batches, AcceptRefused, Close, server, workers
  <2>7. Busy'
    BY <1>3 DEF EpollInv, Types, Accepting, Busy, AcceptRefused, Close, server, workers
  <2>8. Owned'
    BY <1>3 DEF EpollInv, Types, Owned, AcceptRefused, Close, server, workers
  <2> QED
    BY <2>1, <2>2, <2>3, <2>4, <2>5, <2>6, <2>7, <2>8 DEF EpollInv
<1>4. CASE Register
  <2>1. Batches'
    BY <1>4 DEF EpollInv, Batches, Register, NoState, server, network, workers
  <2>2. Types'
    BY <1>4 DEF EpollInv, Types, Register, NoState, server, network, workers
  <2>3. Threads'
    BY <1>4
       DEF EpollInv, Types, Threads, Register, NoState, WorkersEnded, server, network, workers
  <2>4. Entries'
    BY <1>4 DEF EpollInv, Types, Entries, Register, NoState, server, network, workers
  <2>5. Sets'
    BY <1>4, Constant DEF EpollInv, Types, Sets, Register, NoState, server, network, workers
  <2>6. Accepting'
    BY <1>4, Constant
       DEF EpollInv, Types, Accepting, Register, NoState, server, network, workers
  <2>7. Busy'
    BY <1>4 DEF EpollInv, Types, Busy, Register, NoState, server, network, workers
  <2>8. Owned'
    BY <1>4 DEF EpollInv, Types, Owned, Register, NoState, server, network, workers
  <2> QED
    BY <2>1, <2>2, <2>3, <2>4, <2>5, <2>6, <2>7, <2>8 DEF EpollInv
<1>5. CASE Add
  <2>1. Entries'
    BY <1>5 DEF EpollInv, Entries, Add, server, workers
  <2>2. Types'
    BY <1>5, NextWorkerType DEF EpollInv, Types, Accepting, Add, EpollAdd, server, workers
  <2>3. Threads'
    BY <1>5, NextWorkerType
       DEF EpollInv, Types, Threads, Add, EpollAdd, WorkersEnded, server, workers
  <2>4. Sets'
    BY <1>5, NextWorkerType DEF EpollInv, Types, Sets, Accepting, Add, EpollAdd, server, workers
  <2>5. Accepting'
    BY <1>5, NextWorkerType DEF EpollInv, Types, Accepting, Add, EpollAdd, server, workers
  <2>6. Batches'
    BY <1>5, NextWorkerType DEF EpollInv, Types, Batches, Add, EpollAdd, server, workers
  <2>7. Busy'
    BY <1>5, NextWorkerType DEF EpollInv, Types, Busy, Add, EpollAdd, server, workers
  <2>8. Owned'
    BY <1>5, NextWorkerType DEF EpollInv, Types, Owned, Add, EpollAdd, server, workers
  <2> QED
    BY <2>1, <2>2, <2>3, <2>4, <2>5, <2>6, <2>7, <2>8 DEF EpollInv
<1>6. CASE AddFails
  <2>1. Types'
    BY <1>6, Constant DEF EpollInv, Types, AddFails, Close, server, workers
  <2>2. Threads'
    BY <1>6 DEF EpollInv, Types, Threads, AddFails, Close, WorkersEnded, server, workers
  <2>3. Entries'
    BY <1>6 DEF EpollInv, Types, Entries, AddFails, Close, server, workers
  <2>4. Sets'
    BY <1>6 DEF EpollInv, Types, Sets, AddFails, Close, server, workers
  <2>5. Accepting'
    BY <1>6 DEF EpollInv, Types, Accepting, AddFails, Close, server, workers
  <2>6. Batches'
    BY <1>6 DEF EpollInv, Types, Accepting, Batches, AddFails, Close, server, workers
  <2>7. Busy'
    BY <1>6 DEF EpollInv, Types, Accepting, Busy, AddFails, Close, server, workers
  <2>8. Owned'
    BY <1>6 DEF EpollInv, Types, Owned, AddFails, Close, server, workers
  <2> QED
    BY <2>1, <2>2, <2>3, <2>4, <2>5, <2>6, <2>7, <2>8 DEF EpollInv
<1>7. ASSUME NEW c \in Conn, Accept(c) PROVE EpollInv'
  <2>1. Batches'
    BY <1>7 DEF EpollInv, Batches, Accept, server, workers
  <2>2. Types'
    BY <1>7, FreeFd DEF EpollInv, Types, Accept, server, workers
  <2>3. Threads'
    BY <1>7, FreeFd DEF EpollInv, Types, Threads, Accept, WorkersEnded, server, workers
  <2>4. Entries'
    BY <1>7, Constant, FreeFd DEF EpollInv, Types, Entries, Accept, server, workers
  <2>5. Sets'
    BY <1>7, FreeFd DEF EpollInv, Types, Sets, Accept, server, workers
  <2>6. Accepting'
    BY <1>7, Constant, FreeFd
       DEF EpollInv, Types, Entries, Sets, Accepting, Accept, server, workers
  <2>7. Busy'
    BY <1>7, Constant, FreeFd DEF EpollInv, Types, Busy, Accept, server, workers
  <2>8. Owned'
    BY <1>7, FreeFd DEF EpollInv, Types, Owned, Accept, server, workers
  <2> QED
    BY <2>1, <2>2, <2>3, <2>4, <2>5, <2>6, <2>7, <2>8 DEF EpollInv
<1> QED
  BY <1>1, <1>2, <1>3, <1>4, <1>5, <1>6, <1>7 DEF AcceptThread

\* The peers
LEMMA PeerKeeps ==
    ASSUME EpollInv, NEW c \in Conn, Connect(c) \/ Send(c) \/ SendAgain(c) \/ Hangup(c)
    PROVE  EpollInv'
<1>1. CASE Connect(c)
  <2>1. Types' /\ Threads' /\ Entries' /\ Sets' /\ Accepting' /\ Batches' /\ Busy' /\ Owned'
    BY <1>1
       DEF EpollInv, Types, Threads, Entries, Sets, Accepting, Batches, Busy, Owned, Connect,
           WorkersEnded, server, accepting, workers
  <2> QED
    BY <2>1 DEF EpollInv
<1>2. CASE Send(c)
  <2>1. Threads' /\ Entries' /\ Accepting' /\ Batches' /\ Busy' /\ Owned'
    BY <1>2
       DEF EpollInv, Threads, Entries, Accepting, Batches, Busy, Owned, Send, WorkersEnded,
           server, accepting, workers, Edge
  <2>2. Types'
    BY <1>2 DEF EpollInv, Types, Send, Edge, server, accepting, workers
  <2>3. Sets'
    BY <1>2 DEF EpollInv, Types, Sets, Send, Edge, server, accepting, workers
  <2> QED
    BY <2>1, <2>2, <2>3 DEF EpollInv
<1>3. CASE Hangup(c)
  <2>1. Threads' /\ Entries' /\ Accepting' /\ Batches' /\ Busy' /\ Owned'
    BY <1>3
       DEF EpollInv, Threads, Entries, Accepting, Batches, Busy, Owned, Hangup, WorkersEnded,
           server, accepting, workers, Edge
  <2>2. Types'
    BY <1>3 DEF EpollInv, Types, Hangup, Edge, server, accepting, workers
  <2>3. Sets'
    BY <1>3 DEF EpollInv, Types, Sets, Hangup, Edge, server, accepting, workers
  <2> QED
    BY <2>1, <2>2, <2>3 DEF EpollInv
<1>4. CASE SendAgain(c)
  <2>1. Threads' /\ Entries' /\ Accepting' /\ Batches' /\ Busy' /\ Owned'
    BY <1>4
       DEF EpollInv, Threads, Entries, Accepting, Batches, Busy, Owned, SendAgain, WorkersEnded,
           server, accepting, workers, Edge
  <2>2. Types'
    BY <1>4 DEF EpollInv, Types, SendAgain, Edge, server, accepting, workers
  <2>3. Sets'
    BY <1>4 DEF EpollInv, Types, Sets, SendAgain, Edge, server, accepting, workers
  <2> QED
    BY <2>1, <2>2, <2>3 DEF EpollInv
<1> QED
  BY <1>1, <1>2, <1>3, <1>4

\* A worker
LEMMA WorkerKeeps ==
    ASSUME EpollInv, NEW w \in Worker, WorkerThread(w)
    PROVE  EpollInv'
<1>1. CASE WorkerTest(w)
  <2>1. Entries' /\ Sets' /\ Accepting'
    BY <1>1 DEF EpollInv, Entries, Sets, Accepting, WorkerTest, server, accepting, network
  <2>2. Types'
    BY <1>1 DEF EpollInv, Types, WorkerTest, server, accepting, network
  <2>3. Threads'
    BY <1>1 DEF EpollInv, Types, Threads, WorkerTest, WorkersEnded, server, accepting, network
  <2>4. Batches'
    BY <1>1 DEF EpollInv, Types, Batches, WorkerTest, server, accepting, network
  <2>5. Busy'
    BY <1>1 DEF EpollInv, Types, Busy, WorkerTest, server, accepting, network
  <2>6. Owned'
    BY <1>1 DEF EpollInv, Types, Owned, WorkerTest, server, accepting, network
  <2> QED
    BY <2>1, <2>2, <2>3, <2>4, <2>5, <2>6 DEF EpollInv
<1>2. CASE Timeout(w)
  <2>1. Entries' /\ Sets' /\ Accepting'
    BY <1>2 DEF EpollInv, Entries, Sets, Accepting, Timeout, server, accepting, network
  <2>2. Types'
    BY <1>2 DEF EpollInv, Types, Timeout, server, accepting, network
  <2>3. Threads'
    BY <1>2 DEF EpollInv, Types, Threads, Timeout, WorkersEnded, server, accepting, network
  <2>4. Batches'
    BY <1>2 DEF EpollInv, Types, Batches, Timeout, server, accepting, network
  <2>5. Busy'
    BY <1>2 DEF EpollInv, Types, Busy, Timeout, server, accepting, network
  <2>6. Owned'
    BY <1>2 DEF EpollInv, Types, Owned, Timeout, server, accepting, network
  <2> QED
    BY <2>1, <2>2, <2>3, <2>4, <2>5, <2>6 DEF EpollInv
<1>3. CASE Wait(w)
  <2>0. PICK fds \in SUBSET ready[w] :
          /\ batch' = [batch EXCEPT ![w] = {<<fd, peer[socket[fd]] = "gone">> : fd \in fds}]
          /\ ready' = [ready EXCEPT ![w] = @ \ fds]
    BY <1>3 DEF Wait, Reports
  <2> DEFINE new == {<<fd, peer[socket[fd]] = "gone">> : fd \in fds}
  <2>a. /\ wpc[w] = "wait" /\ wpc' = [wpc EXCEPT ![w] = "events"]
        /\ UNCHANGED <<server, accepting, socket, peer, sent, interest, cur, connections_, history>>
    BY <1>3 DEF Wait
  <2>b. new \subseteq Fd \X BOOLEAN
    <3> SUFFICES ASSUME NEW fd \in fds
                 PROVE  <<fd, peer[socket[fd]] = "gone">> \in Fd \X BOOLEAN
      BY Zenon
    <3>1. fd \in Fd
      BY DEF EpollInv, Types
    <3>2. (peer[socket[fd]] = "gone") \in BOOLEAN
      OBVIOUS
    <3> QED
      BY <3>1, <3>2, Zenon
  <2>c. /\ \A e \in new : e[1] \in interest[w]
        /\ \A e, f \in new : e[1] = f[1] => e = f
    BY DEF EpollInv, Sets
  <2>d. batch' = [batch EXCEPT ![w] = new]
    BY <2>0
  <2> HIDE DEF new
  <2>1. Entries' /\ Accepting'
    BY <2>a DEF EpollInv, Entries, Accepting, server, accepting
  <2>2. Types'
    BY <2>0, <2>a, <2>b, <2>d DEF EpollInv, Types, server, accepting
  <2>3. Threads'
    BY <2>a DEF EpollInv, Types, Threads, WorkersEnded, server, accepting
  <2>4. Sets'
    BY <2>0, <2>a DEF EpollInv, Types, Sets, server, accepting
  <2>5. Batches'
    BY <2>a, <2>c, <2>d DEF EpollInv, Types, Batches, server, accepting
  <2>6. Busy'
    BY <2>a DEF EpollInv, Types, Busy, server, accepting
  <2>7. Owned'
    BY <2>a DEF EpollInv, Types, Owned, server, accepting
  <2> QED
    BY <2>1, <2>2, <2>3, <2>4, <2>5, <2>6, <2>7 DEF EpollInv
<1>4. CASE Event(w)
  <2>1. Entries' /\ Sets' /\ Accepting'
    BY <1>4 DEF EpollInv, Entries, Sets, Accepting, Event, server, accepting, network
  <2>2. Types'
    BY <1>4, ClosingOrder DEF EpollInv, Types, Event, server, accepting, network
  <2>3. Threads'
    BY <1>4, ClosingOrder
       DEF EpollInv, Types, Threads, Event, WorkersEnded, server, accepting, network
  <2>4. Batches'
    BY <1>4, ClosingOrder DEF EpollInv, Types, Batches, Event, server, accepting, network
  <2>5. Busy'
    BY <1>4, ClosingOrder DEF EpollInv, Types, Batches, Busy, Event, server, accepting, network
  <2>6. Owned'
    BY <1>4, ClosingOrder DEF EpollInv, Types, Owned, Event, server, accepting, network
  <2> QED
    BY <2>1, <2>2, <2>3, <2>4, <2>5, <2>6 DEF EpollInv
<1>5. CASE EndOfBatch(w)
  <2>1. Entries' /\ Sets' /\ Accepting'
    BY <1>5 DEF EpollInv, Entries, Sets, Accepting, EndOfBatch, server, accepting, network
  <2>2. Types'
    BY <1>5 DEF EpollInv, Types, EndOfBatch, server, accepting, network
  <2>3. Threads'
    BY <1>5 DEF EpollInv, Types, Threads, EndOfBatch, WorkersEnded, server, accepting, network
  <2>4. Batches'
    BY <1>5 DEF EpollInv, Types, Batches, EndOfBatch, server, accepting, network
  <2>5. Busy'
    BY <1>5 DEF EpollInv, Types, Busy, EndOfBatch, server, accepting, network
  <2>6. Owned'
    BY <1>5 DEF EpollInv, Types, Owned, EndOfBatch, server, accepting, network
  <2> QED
    BY <2>1, <2>2, <2>3, <2>4, <2>5, <2>6 DEF EpollInv
<1>6. CASE Recv(w)
  <2> DEFINE fd == cur[w]
  <2>0. PICK s : /\ connections_' = [connections_ EXCEPT ![fd] = s]
                 /\ "clientAddress" \in DOMAIN s /\ s.clientAddress = connections_[fd].clientAddress
    <3>1. fd \in Fd /\ "clientAddress" \in DOMAIN connections_[fd]
      BY <1>6, Constant DEF Recv, EpollInv, Types, Busy
    <3> DEFINE c == socket[fd]
               upto == Min({sent[c], got[c] + kReadChunk})
               state == [connections_[fd] EXCEPT
                           !.buffer = @ \o SubSeq(Stream[c], got[c] + 1, upto)]
               new == Scan(state.buffer, state.emptyFrameCount)
    <3>2. "clientAddress" \in DOMAIN state /\ state.clientAddress = connections_[fd].clientAddress
      BY <3>1
    <3>3. connections_' = [connections_ EXCEPT ![fd] = Processed(state, new)]
      BY <1>6 DEF Recv
    <3> HIDE DEF state, new
    <3> QED
      BY <3>2, <3>3, ProcessedKeepsAddress
  <2>r. /\ wpc[w] = "recv" /\ UNCHANGED <<server, accepting, network, batch, cur>>
        /\ wpc' = [wpc EXCEPT ![w] = "recv"]
    BY <1>6 DEF Recv, AfterRecv
  <2>s. s # NoState
    BY <2>0, <2>r, Constant DEF EpollInv, Types, Entries, Sets, Busy, NoState
  <2> HIDE DEF fd
  <2>1. Types'
    BY <2>0, <2>r, <2>s DEF EpollInv, Types, fd, server, accepting, network
  <2>2. Threads'
    BY <2>0, <2>r, <2>s
       DEF EpollInv, Types, Threads, fd, WorkersEnded, server, accepting, network
  <2>3. Entries'
    BY <2>0, <2>r, <2>s DEF EpollInv, Types, Entries, Sets, Busy, fd, server, accepting, network
  <2>4. Sets'
    BY <2>0, <2>r, <2>s DEF EpollInv, Types, Sets, fd, server, accepting, network
  <2>5. Accepting'
    BY <2>0, <2>r, <2>s DEF EpollInv, Types, Accepting, Busy, fd, server, accepting, network
  <2>6. Batches'
    BY <2>0, <2>r, <2>s DEF EpollInv, Types, Batches, fd, server, accepting, network
  <2>7. Busy'
    BY <2>0, <2>r, <2>s DEF EpollInv, Types, Busy, fd, server, accepting, network
  <2>8. Owned'
    BY <2>0, <2>r, <2>s DEF EpollInv, Types, Owned, fd, server, accepting, network
  <2> QED
    BY <2>1, <2>2, <2>3, <2>4, <2>5, <2>6, <2>7, <2>8 DEF EpollInv
<1>7. CASE RecvEnds(w)
  <2>1. Entries' /\ Sets' /\ Accepting'
    BY <1>7 DEF EpollInv, Entries, Sets, Accepting, RecvEnds, server, accepting, network
  <2>2. Types'
    BY <1>7, ClosingOrder DEF EpollInv, Types, RecvEnds, server, accepting, network
  <2>3. Threads'
    BY <1>7, ClosingOrder
       DEF EpollInv, Types, Threads, RecvEnds, WorkersEnded, server, accepting, network
  <2>4. Batches'
    BY <1>7, ClosingOrder DEF EpollInv, Types, Batches, RecvEnds, server, accepting, network
  <2>5. Busy'
    BY <1>7, ClosingOrder DEF EpollInv, Types, Busy, RecvEnds, server, accepting, network
  <2>6. Owned'
    BY <1>7, ClosingOrder DEF EpollInv, Types, Owned, RecvEnds, server, accepting, network
  <2> QED
    BY <2>1, <2>2, <2>3, <2>4, <2>5, <2>6 DEF EpollInv
<1>8. CASE Erase(w)
  <2>1. Types'
    BY <1>8, Constant, ClosingOrder DEF EpollInv, Types, Erase, AfterClosing, server, accepting
  <2>2. Threads'
    BY <1>8, ClosingOrder
       DEF EpollInv, Types, Threads, Erase, AfterClosing, WorkersEnded, server, accepting
  <2>3. Entries'
    BY <1>8, ClosingOrder DEF EpollInv, Types, Entries, Erase, AfterClosing, server, accepting
  <2>4. Sets'
    BY <1>8, ClosingOrder
       DEF EpollInv, Types, Sets, Busy, Erase, AfterClosing, server, accepting
  <2>5. Accepting'
    BY <1>8, ClosingOrder
       DEF EpollInv, Types, Accepting, Busy, Erase, AfterClosing, server, accepting
  <2>6. Batches'
    BY <1>8, ClosingOrder DEF EpollInv, Types, Batches, Erase, AfterClosing, server, accepting
  <2>7. Busy'
    BY <1>8, ClosingOrder
       DEF EpollInv, Types, Sets, Accepting, Busy, Erase, AfterClosing, server, accepting
  <2>8. Owned'
    BY <1>8, ClosingOrder DEF EpollInv, Types, Owned, Erase, AfterClosing, server, accepting
  <2> QED
    BY <2>1, <2>2, <2>3, <2>4, <2>5, <2>6, <2>7, <2>8 DEF EpollInv
<1>9. CASE CloseFd(w)
  <2>1. Types'
    BY <1>9, ClosingOrder DEF EpollInv, Types, CloseFd, AfterClosing, Close, server, accepting
  <2>2. Threads'
    BY <1>9, ClosingOrder
       DEF EpollInv, Types, Threads, CloseFd, AfterClosing, Close, WorkersEnded, server,
           accepting
  <2>3. Entries'
    BY <1>9, ClosingOrder
       DEF EpollInv, Types, Entries, Busy, CloseFd, AfterClosing, Close, server, accepting
  <2>4. Sets'
    BY <1>9, ClosingOrder
       DEF EpollInv, Types, Sets, CloseFd, AfterClosing, Close, server, accepting
  <2>5. Accepting'
    BY <1>9, ClosingOrder
       DEF EpollInv, Types, Accepting, Busy, CloseFd, AfterClosing, Close, server, accepting
  <2>6. Batches'
    BY <1>9, ClosingOrder
       DEF EpollInv, Types, Batches, Busy, CloseFd, AfterClosing, Close, server, accepting
  <2>7. Busy'
    BY <1>9, ClosingOrder
       DEF EpollInv, Types, Busy, CloseFd, AfterClosing, Close, server, accepting
  <2>8. Owned'
    BY <1>9, ClosingOrder
       DEF EpollInv, Types, Owned, CloseFd, AfterClosing, Close, server, accepting
  <2> QED
    BY <2>1, <2>2, <2>3, <2>4, <2>5, <2>6, <2>7, <2>8 DEF EpollInv
<1> QED
  BY <1>1, <1>2, <1>3, <1>4, <1>5, <1>6, <1>7, <1>8, <1>9 DEF WorkerThread

LEMMA NextEpollInv == EpollInv /\ [Next]_vars => EpollInv'
<1> SUFFICES ASSUME EpollInv, [Next]_vars PROVE EpollInv'
  OBVIOUS
<1>1. CASE Start \/ Stop
  BY <1>1, StopKeeps
<1>2. CASE AcceptThread
  BY <1>2, AcceptKeeps
<1>3. ASSUME NEW w \in Worker, WorkerThread(w) PROVE EpollInv'
  BY <1>3, WorkerKeeps
<1>4. ASSUME NEW c \in Conn, Connect(c) \/ Send(c) \/ SendAgain(c) \/ Hangup(c)
      PROVE  EpollInv'
  BY <1>4, PeerKeeps
<1>5. CASE UNCHANGED vars
  <2>1. Types' /\ Threads' /\ Entries'
    BY <1>5 DEF EpollInv, Types, Threads, WorkersEnded, Entries, vars, server, accepting, network,
                workers
  <2>2. Sets' /\ Accepting' /\ Batches' /\ Busy' /\ Owned'
    BY <1>5 DEF EpollInv, Sets, Accepting, Batches, Busy, Owned, vars, accepting, network, workers
  <2> QED
    BY <2>1, <2>2 DEF EpollInv
<1> QED
  BY <1>1, <1>2, <1>3, <1>4, <1>5 DEF Next

----------------------------------------------------------------------------
(* The theorems *)

\* The map and the events a worker has yet to handle are about the connection
\* the descriptor now stands for, however soon accept() uses a number again.
THEOREM DescriptorsAreCurrent == Spec => []DescriptorsCurrent
<1>1. EpollInv => DescriptorsCurrent
  BY DEF EpollInv, Entries, Sets, Batches, DescriptorsCurrent, MapMatchesSockets, EventsAreCurrent
<1> QED
  BY <1>1, InitEpollInv, NextEpollInv, PTL DEF Spec

\* The entry handleRead() uses without the mutex is not erased under it, and
\* one worker at a time handles a connection.
THEOREM EntryStaysAlive == Spec => []StateStaysAlive
<1>1. EpollInv => StateStaysAlive
  <2> SUFFICES ASSUME EpollInv, NEW w \in Worker, wpc[w] = "recv"
               PROVE  /\ connections_[cur[w]] # NoState
                      /\ \A v \in Worker \ {w} :
                            wpc[v] \in {"recv", "erase", "close"} => cur[v] # cur[w]
    BY DEF StateStaysAlive
  <2>1. cur[w] \in interest[w]
    BY DEF EpollInv, Busy
  <2>2. connections_[cur[w]] # NoState
    BY <2>1 DEF EpollInv, Sets
  <2>3. ASSUME NEW v \in Worker \ {w}, wpc[v] \in {"recv", "erase"} PROVE cur[v] # cur[w]
    BY <2>1, <2>3 DEF EpollInv, Sets, Busy
  <2>4. ASSUME NEW v \in Worker \ {w}, wpc[v] = "close" PROVE cur[v] # cur[w]
    BY <2>1, <2>4 DEF EpollInv, Busy
  <2> QED
    BY <2>2, <2>3, <2>4
<1> QED
  BY <1>1, InitEpollInv, NextEpollInv, PTL DEF Spec

\* When stop() is over no thread runs and no descriptor of a connection is open,
\* whichever way each connection ended.
NothingLeft == mpc = "stopped" => /\ \A fd \in Fd : socket[fd] = NoConn
                                  /\ apc \in {"none", "done"} /\ WorkersEnded

\* stop() leaves nothing behind.
THEOREM NothingIsLeft == Spec => []NothingLeft
<1>1. EpollInv => NothingLeft
  BY DEF EpollInv, Threads, WorkersEnded, Owned, NothingLeft
<1> QED
  BY <1>1, InitEpollInv, NextEpollInv, PTL DEF Spec

----------------------------------------------------------------------------
(* Epoll: the frames *)

\* The peers, as both servers know them
PeerStates == {"away", "waiting", "connected", "gone", "closed"}

\* A client in the map
Entry == [clientAddress : Conn \cup {NoConn}, buffer : Seq(Nat), emptyFrameCount : Nat]

\* What the map and the history hold; no more is received than was sent.
Values == /\ peer \in [Conn -> PeerStates]
          /\ sent \in [Conn -> Nat] /\ got \in [Conn -> Nat]
          /\ \A c \in Conn : got[c] <= sent[c] /\ sent[c] <= Len(Stream[c])
          /\ events \in [Conn -> Seq(FrameEvent)]
          /\ connections_ \in [Fd -> Entry]

\* A connection has one descriptor, and none before it is accepted.
OneSocket ==
    /\ \A fd, g \in Fd : socket[fd] \in Conn /\ socket[fd] = socket[g] => fd = g
    /\ \A c \in Conn : peer[c] \in {"away", "waiting"} => \A fd \in Fd : socket[fd] # c

\* Nothing is received on a connection before it is in the map.
Unheard == \A c \in Conn :
             peer[c] \in {"away", "waiting"} \/ (apc = "register" /\ socket[afd] = c)
                => got[c] = 0 /\ events[c] = << >> /\ c \notin tripped

\* The bytes received from a client, scanned in one piece
WholeScan(c) == Scan(SubSeq(Stream[c], 1, got[c]), 0)

\* The events are those of the bytes received, scanned in one piece, and the entry
\* holds what that scan keeps.
Framed == \A c \in Conn \ tripped :
            /\ WholeScan(c).do = "wait" /\ events[c] = WholeScan(c).events
            /\ \A fd \in Fd : connections_[fd].clientAddress = c =>
                  /\ connections_[fd].buffer = WholeScan(c).buf
                  /\ connections_[fd].emptyFrameCount = WholeScan(c).empties

\* The invariant of the frames
FrameInv == Values /\ OneSocket /\ Unheard /\ Framed

\* Steps that read nothing: connections may be closed, entries erased and bytes sent.
ReadsNothing ==
    /\ UNCHANGED history
    /\ peer' \in [Conn -> PeerStates]
    /\ \A c \in Conn : peer'[c] \in {"away", "waiting"} => peer[c] \in {"away", "waiting"}
    /\ sent' \in [Conn -> Nat]
    /\ \A c \in Conn : sent[c] <= sent'[c] /\ sent'[c] <= Len(Stream[c])
    /\ \A fd \in Fd : socket'[fd] \in {socket[fd], NoConn}
    /\ connections_' \in [Fd -> Entry]
    /\ \A fd \in Fd : connections_'[fd] \in {connections_[fd], NoState}
    /\ apc' = "register" => apc = "register" /\ afd' = afd

\* An entry that is not there belongs to nobody.
LEMMA EntryType ==
    /\ NoState \in Entry /\ NoState.clientAddress = NoConn /\ NoConn \notin Conn
    /\ \A c \in Conn : Stream[c] \in Seq(0 .. Base - 1) /\ Len(Stream[c]) \in Nat
<1>1. << >> \in Seq(Nat)
  OBVIOUS
<1> QED
  BY <1>1, EpollAssumption DEF NoState, Entry

\* Steps that read nothing keep the invariant.
LEMMA ReadsNothingKeeps ==
    ASSUME EpollInv, FrameInv, ReadsNothing
    PROVE  FrameInv'
<1>1. Values'
  <2>1. ASSUME NEW c \in Conn PROVE got[c] <= sent'[c]
    <3>1. got[c] \in Nat /\ sent[c] \in Nat /\ sent'[c] \in Nat /\ got[c] <= sent[c]
      BY DEF FrameInv, Values, ReadsNothing
    <3> QED
      BY <3>1 DEF ReadsNothing
  <2> QED
    BY <2>1 DEF FrameInv, Values, ReadsNothing, history
<1>2. OneSocket'
  BY EntryType DEF FrameInv, OneSocket, ReadsNothing
<1>3. Unheard'
  <2>1. apc = "register" => afd \in Fd
    BY DEF EpollInv, Accepting
  <2> QED
    BY <2>1, EntryType DEF FrameInv, Unheard, ReadsNothing, history
<1>4. Framed'
  <2>1. \A c \in Conn : WholeScan(c)' = WholeScan(c)
    BY DEF WholeScan, ReadsNothing, history
  <2> SUFFICES ASSUME NEW c \in Conn \ tripped
               PROVE  /\ WholeScan(c).do = "wait" /\ events[c] = WholeScan(c).events
                      /\ \A fd \in Fd : connections_'[fd].clientAddress = c =>
                           /\ connections_'[fd].buffer = WholeScan(c).buf
                           /\ connections_'[fd].emptyFrameCount = WholeScan(c).empties
    BY <2>1 DEF Framed, ReadsNothing, history
  <2>2. ASSUME NEW fd \in Fd, connections_'[fd].clientAddress = c
        PROVE  connections_'[fd] = connections_[fd]
    BY <2>2, EntryType DEF ReadsNothing
  <2> QED
    BY <2>2 DEF FrameInv, Framed
<1> QED
  BY <1>1, <1>2, <1>3, <1>4 DEF FrameInv

\* Before start() nothing was received.
LEMMA InitFrameInv == Init => FrameInv
<1> SUFFICES ASSUME Init PROVE FrameInv
  OBVIOUS
<1>1. Values
  BY EntryType DEF Init, Values, PeerStates
<1>2. OneSocket /\ Unheard
  BY EntryType DEF Init, OneSocket, Unheard
<1>3. ASSUME NEW c \in Conn
      PROVE  WholeScan(c) = St(<< >>, 0, << >>, "wait")
  <2>1. SubSeq(Stream[c], 1, 0) = << >>
    BY EntryType, SubSeqEmpty
  <2> QED
    BY <2>1, ScanNothing DEF WholeScan, Init
<1>4. Framed
  <2> SUFFICES ASSUME NEW c \in Conn \ tripped
               PROVE  /\ WholeScan(c).do = "wait" /\ events[c] = WholeScan(c).events
                      /\ \A fd \in Fd : connections_[fd].clientAddress # c
    BY DEF Framed
  <2>1. WholeScan(c).do = "wait" /\ WholeScan(c).events = << >>
    BY <1>3, StFields
  <2> QED
    BY <2>1, EntryType DEF Init
<1> QED
  BY <1>1, <1>2, <1>4 DEF FrameInv

\* start(), stop(), the peers, and what else reads nothing
LEMMA QuietSteps ==
    ASSUME EpollInv, FrameInv
    PROVE  /\ Start \/ Stop => ReadsNothing
           /\ AcceptTest \/ AcceptNone \/ AcceptRefused \/ Add \/ AddFails => ReadsNothing
           /\ \A c \in Conn : Connect(c) \/ Send(c) \/ Hangup(c) => ReadsNothing
           /\ \A w \in Worker : WorkerThread(w) /\ ~Recv(w) => ReadsNothing
           /\ UNCHANGED vars => ReadsNothing
<1>1. /\ peer \in [Conn -> PeerStates] /\ sent \in [Conn -> Nat] /\ connections_ \in [Fd -> Entry]
      /\ \A c \in Conn : sent[c] <= Len(Stream[c])
  BY DEF FrameInv, Values
<1>2. \A c \in Conn : sent[c] <= sent[c]
  BY <1>1
<1>s. socket \in [Fd -> Conn \cup {NoConn}] /\ NoState \in Entry
  BY EntryType DEF EpollInv, Types
<1>3. ASSUME UNCHANGED <<socket, peer, sent, connections_, history>>, apc' # "register"
      PROVE  ReadsNothing
  BY <1>1, <1>2, <1>3 DEF ReadsNothing
<1>4. ASSUME UNCHANGED <<socket, peer, sent, connections_, history, apc, afd>>
      PROVE  ReadsNothing
  BY <1>1, <1>2, <1>4 DEF ReadsNothing
<1>5. ASSUME NEW fds, Close(fds), UNCHANGED <<sent, history>>,
             connections_' \in [Fd -> Entry],
             \A fd \in Fd : connections_'[fd] \in {connections_[fd], NoState},
             apc' = "register" => apc = "register" /\ afd' = afd
      PROVE  ReadsNothing
  <2>1. peer' \in [Conn -> PeerStates] /\ \A c \in Conn : peer'[c] \in {peer[c], "closed"}
    BY <1>1, <1>5 DEF Close, PeerStates
  <2>2. \A fd \in Fd : socket'[fd] \in {socket[fd], NoConn}
    BY <1>5 DEF Close
  <2> QED
    BY <1>1, <1>2, <1>5, <2>1, <2>2 DEF ReadsNothing
<1>6. Start \/ Stop => ReadsNothing
  <2>1. Start => ReadsNothing
    BY <1>3, <1>4 DEF Start, network, EpollInv, Types, Threads
  <2>2. StopFlag \/ StopClose \/ StopAccept \/ StopWorkers => ReadsNothing
    BY <1>4 DEF StopFlag, StopClose, StopAccept, StopWorkers, accepting, network
  <2>3. StopRest => ReadsNothing
    <3> SUFFICES ASSUME StopRest PROVE ReadsNothing
      OBVIOUS
    <3>1. /\ connections_' \in [Fd -> Entry]
          /\ \A fd \in Fd : connections_'[fd] \in {connections_[fd], NoState}
      BY <1>s DEF StopRest
    <3> QED
      BY <1>5, <3>1 DEF StopRest, accepting
  <2> QED
    BY <2>1, <2>2, <2>3 DEF Stop
<1>7. AcceptTest \/ AcceptNone \/ AcceptRefused \/ Add \/ AddFails => ReadsNothing
  <2>1. AcceptTest \/ AcceptNone \/ Add => ReadsNothing
    BY <1>3 DEF AcceptTest, AcceptNone, Add, network
  <2>2. AcceptRefused => ReadsNothing
    BY <1>1, <1>5 DEF AcceptRefused
  <2>3. AddFails => ReadsNothing
    <3> SUFFICES ASSUME AddFails PROVE ReadsNothing
      OBVIOUS
    <3>1. /\ connections_' \in [Fd -> Entry]
          /\ \A fd \in Fd : connections_'[fd] \in {connections_[fd], NoState}
      BY <1>1, <1>s DEF AddFails
    <3> QED
      BY <1>5, <3>1 DEF AddFails
  <2> QED
    BY <2>1, <2>2, <2>3
<1>8. ASSUME NEW c \in Conn PROVE Connect(c) \/ Send(c) \/ Hangup(c) => ReadsNothing
  <2>1. Connect(c) \/ Hangup(c) => ReadsNothing
    BY <1>1, <1>2 DEF Connect, Hangup, ReadsNothing, accepting, PeerStates
  <2>2. Send(c) => ReadsNothing
    <3> SUFFICES ASSUME Send(c) PROVE ReadsNothing
      OBVIOUS
    <3>1. PICK n \in Cut[c] : n > sent[c] /\ sent' = [sent EXCEPT ![c] = n]
      BY DEF Send
    <3>2. n \in Nat /\ n <= Len(Stream[c])
      BY EpollAssumption, EntryType
    <3>3. /\ sent' \in [Conn -> Nat]
          /\ \A d \in Conn : sent[d] <= sent'[d] /\ sent'[d] <= Len(Stream[d])
      BY <1>1, <1>2, <3>1, <3>2
    <3> QED
      BY <1>1, <3>3 DEF Send, ReadsNothing, accepting
  <2> QED
    BY <2>1, <2>2
<1>9. ASSUME NEW w \in Worker
      PROVE  WorkerThread(w) /\ ~Recv(w) => ReadsNothing
  <2>1. WorkerTest(w) \/ Timeout(w) \/ Wait(w) \/ Event(w) \/ EndOfBatch(w) \/ RecvEnds(w)
        => ReadsNothing
    BY <1>4 DEF WorkerTest, Timeout, Wait, Event, EndOfBatch, RecvEnds, accepting, network
  <2>2. Erase(w) => ReadsNothing
    <3> SUFFICES ASSUME Erase(w) PROVE ReadsNothing
      OBVIOUS
    <3>1. /\ connections_' \in [Fd -> Entry]
          /\ \A fd \in Fd : connections_'[fd] \in {connections_[fd], NoState}
      BY <1>1, <1>s DEF Erase
    <3> QED
      BY <1>1, <1>2, <3>1 DEF Erase, ReadsNothing, accepting
  <2>3. CloseFd(w) => ReadsNothing
    BY <1>1, <1>5 DEF CloseFd, accepting
  <2> QED
    BY <2>1, <2>2, <2>3 DEF WorkerThread
<1>10. UNCHANGED vars => ReadsNothing
  BY <1>4 DEF vars, accepting, network
<1> QED
  BY <1>6, <1>7, <1>8, <1>9, <1>10

\* A connection is accepted: it gets a descriptor nobody has.
LEMMA AcceptFramed ==
    ASSUME EpollInv, FrameInv, NEW c \in Conn, Accept(c)
    PROVE  FrameInv'
<1>1. /\ Min(Free) \in Fd /\ socket[Min(Free)] = NoConn /\ peer[c] = "waiting"
      /\ socket \in [Fd -> Conn \cup {NoConn}] /\ NoConn \notin Conn
  BY FreeFd, EntryType DEF Accept, EpollInv, Types, Waiting
<1> DEFINE fd == Min(Free)
<1>2. /\ socket' = [socket EXCEPT ![fd] = c] /\ peer' = [peer EXCEPT ![c] = "connected"]
      /\ apc' = "register" /\ afd' = fd /\ UNCHANGED <<sent, connections_, history>>
  BY DEF Accept
<1> HIDE DEF fd
<1>3. fd \in Fd /\ socket[fd] = NoConn
  BY <1>1 DEF fd
<1>4. Values'
  BY <1>2 DEF FrameInv, Values, PeerStates, history
<1>5. OneSocket'
  BY <1>1, <1>2, <1>3 DEF FrameInv, Values, OneSocket
<1>6. Unheard'
  BY <1>1, <1>2, <1>3 DEF FrameInv, Values, Unheard, history
<1>7. Framed'
  <2>1. \A d \in Conn : WholeScan(d)' = WholeScan(d)
    BY <1>2 DEF WholeScan, history
  <2> QED
    BY <1>2, <2>1 DEF FrameInv, Framed, history
<1> QED
  BY <1>4, <1>5, <1>6, <1>7 DEF FrameInv

\* The connection gets an entry, before anything was read from it.
LEMMA RegisterFramed ==
    ASSUME EpollInv, FrameInv, Register
    PROVE  FrameInv'
<1> DEFINE c == socket[afd]
           new == [clientAddress |-> c, buffer |-> << >>, emptyFrameCount |-> 0]
<1>1. /\ afd \in Fd /\ c \in Conn /\ connections_[afd] = NoState /\ apc = "register"
  BY DEF EpollInv, Accepting, Register
<1>2. new \in Entry /\ new.clientAddress = c /\ new.buffer = << >> /\ new.emptyFrameCount = 0
  <2>1. << >> \in Seq(Nat) /\ 0 \in Nat
    OBVIOUS
  <2> QED
    BY <1>1, <2>1 DEF Entry
<1>n. [connections_[afd] EXCEPT !.clientAddress = c] = new
  BY <1>1 DEF NoState
<1>3. /\ connections_' = [connections_ EXCEPT ![afd] = new] /\ apc' = "add"
      /\ UNCHANGED <<socket, peer, sent, history, afd>>
  BY <1>n DEF Register, network
<1> HIDE DEF new
<1>4. Values'
  BY <1>1, <1>2, <1>3 DEF FrameInv, Values, history
<1>5. OneSocket' /\ Unheard'
  BY <1>3 DEF FrameInv, OneSocket, Unheard, history
<1>6. Framed'
  <2>1. \A d \in Conn : WholeScan(d)' = WholeScan(d)
    BY <1>3 DEF WholeScan, history
  <2>2. got[c] = 0
    BY <1>1 DEF FrameInv, Unheard
  <2>3. WholeScan(c) = St(<< >>, 0, << >>, "wait")
    <3>1. SubSeq(Stream[c], 1, 0) = << >>
      BY <1>1, EntryType, SubSeqEmpty
    <3>2. Scan(<< >>, 0) = St(<< >>, 0, << >>, "wait")
      BY ScanNothing
    <3> HIDE DEF c
    <3> QED
      BY <2>2, <3>1, <3>2 DEF WholeScan
  <2>4. WholeScan(c).buf = << >> /\ WholeScan(c).empties = 0
    BY <2>3, StFields
  <2> SUFFICES ASSUME NEW d \in Conn \ tripped
               PROVE  /\ WholeScan(d).do = "wait" /\ events[d] = WholeScan(d).events
                      /\ \A fd \in Fd : connections_'[fd].clientAddress = d =>
                           /\ connections_'[fd].buffer = WholeScan(d).buf
                           /\ connections_'[fd].emptyFrameCount = WholeScan(d).empties
    BY <1>3, <2>1 DEF Framed, history
  <2>5. ASSUME NEW fd \in Fd, connections_'[fd].clientAddress = d
        PROVE  /\ connections_'[fd].buffer = WholeScan(d).buf
               /\ connections_'[fd].emptyFrameCount = WholeScan(d).empties
    <3>1. CASE fd = afd
      <4>1. connections_'[fd] = new
        BY <1>1, <1>3, <3>1 DEF FrameInv, Values
      <4> QED
        BY <1>2, <2>4, <2>5, <4>1
    <3>2. CASE fd # afd
      <4>1. connections_'[fd] = connections_[fd]
        BY <1>3, <3>2 DEF FrameInv, Values
      <4> QED
        BY <2>5, <4>1 DEF FrameInv, Framed
    <3> QED
      BY <3>1, <3>2
  <2> QED
    BY <2>5 DEF FrameInv, Framed
<1> QED
  BY <1>4, <1>5, <1>6 DEF FrameInv

\* recv() gives some of the bytes sent.
LEMMA UpTo ==
    ASSUME NEW x \in Nat, NEW y \in Nat, x < y
    PROVE  Min({y, x + kReadChunk}) \in Nat /\ Min({y, x + kReadChunk}) \in x .. y
<1>1. kReadChunk \in Nat /\ {y, x + kReadChunk} \in SUBSET Nat
  BY EpollAssumption
<1>2. PICK i \in {y, x + kReadChunk} : \A j \in {y, x + kReadChunk} : i <= j
  BY <1>1, LeastNumber
<1>3. /\ Min({y, x + kReadChunk}) \in {y, x + kReadChunk}
      /\ \A j \in {y, x + kReadChunk} : Min({y, x + kReadChunk}) <= j
  BY <1>2 DEF Min
<1> QED
  BY <1>1, <1>3

\* The entry of a connection after the buffer was processed
Kept(address, new) == [clientAddress |-> address, emptyFrameCount |-> new.empties,
                       buffer |-> IF new.do = "guard" THEN << >> ELSE new.buf]

\* A piece is put at the end of the buffer, and the buffer processed.
LEMMA ProcessedEntry ==
    ASSUME NEW old \in Entry, NEW b, NEW state, state = [old EXCEPT !.buffer = b]
    PROVE  /\ state.buffer = b /\ state.emptyFrameCount = old.emptyFrameCount
           /\ state.clientAddress = old.clientAddress
           /\ \A new : Processed(state, new) = Kept(old.clientAddress, new)
<1> DEFINE Of(a, x, n) == [clientAddress |-> a, emptyFrameCount |-> n, buffer |-> x]
<1>1. PICK a, x, n : old = Of(a, x, n)
  BY DEF Entry
<1>2. Of(a, b, n) = state
  BY <1>1
<1>3. /\ old.emptyFrameCount = n /\ old.clientAddress = a
  BY <1>1
<1>4. /\ Of(a, b, n).buffer = b /\ Of(a, b, n).emptyFrameCount = n
      /\ Of(a, b, n).clientAddress = a
  OBVIOUS
<1>5. ASSUME NEW new PROVE Processed(Of(a, b, n), new) = Kept(a, new)
  <2> DEFINE rest == IF new.do = "guard" THEN << >> ELSE new.buf
  <2> HIDE DEF rest
  <2>1. Of(a, b, new.empties) = [Of(a, b, n) EXCEPT !.emptyFrameCount = new.empties]
    OBVIOUS
  <2>2. Of(a, rest, new.empties) = [Of(a, b, new.empties) EXCEPT !.buffer = rest]
    OBVIOUS
  <2>3. Kept(a, new) = Of(a, rest, new.empties)
    BY DEF Kept, rest
  <2> HIDE DEF Of
  <2>4. Processed(Of(a, b, n), new)
          = [Of(a, b, n) EXCEPT !.emptyFrameCount = new.empties, !.buffer = rest]
    BY Zenon DEF Processed, rest
  <2> QED
    BY <2>1, <2>2, <2>3, <2>4, Zenon
<1> HIDE DEF Of
<1> QED
  BY <1>2, <1>3, <1>4, <1>5, Zenon

\* A piece is read: the bytes kept and the piece give what the stream up to here
\* gives in one.
LEMMA RecvFramed ==
    ASSUME EpollInv, FrameInv, NEW w \in Worker, Recv(w)
    PROVE  FrameInv'
<1> DEFINE fd == cur[w]
           c == socket[fd]
           old == connections_[fd]
           n == Min({sent[c], got[c] + kReadChunk})
           piece == SubSeq(Stream[c], got[c] + 1, n)
           new == Scan(old.buffer \o piece, old.emptyFrameCount)
           kept == Kept(c, new)
<1>1. /\ fd \in Fd /\ c \in Conn /\ old # NoState /\ old.clientAddress = c
      /\ apc = "register" => fd # afd
  <2>1. wpc[w] = "recv"
    BY DEF Recv
  <2> QED
    BY <2>1 DEF EpollInv, Types, Entries, Sets, Busy, Accepting
<1>2. old \in Entry /\ old.buffer \in Seq(Nat) /\ old.emptyFrameCount \in Nat
  BY <1>1 DEF FrameInv, Values, Entry
<1>3. /\ got[c] \in Nat /\ sent[c] \in Nat /\ sent[c] <= Len(Stream[c]) /\ got[c] < sent[c]
      /\ Stream[c] \in Seq(0 .. Base - 1) /\ Len(Stream[c]) \in Nat
      /\ events[c] \in Seq(FrameEvent)
  <2>1. got[c] < sent[c]
    BY DEF Recv
  <2> HIDE DEF c
  <2> QED
    BY <1>1, <2>1, EntryType DEF FrameInv, Values
<1>4. n \in Nat /\ n \in got[c] .. sent[c] /\ n \in 0 .. Len(Stream[c]) /\ got[c] \in 0 .. n
  <2>1. n \in Nat /\ n \in got[c] .. sent[c]
    BY <1>3, UpTo
  <2> HIDE DEF n, c
  <2> QED
    BY <1>3, <2>1
<1>5. piece \in Seq(Nat) /\ old.buffer \o piece \in Seq(Nat)
  <2> HIDE DEF n, c, old
  <2>1. Stream[c] \in Seq(Nat)
    BY <1>3, Bytes
  <2>2. piece \in Seq(Nat)
    BY <1>4, <2>1, FirstAndNext
  <2> QED
    BY <1>2, <2>2, ConcatProperties
<1>6. /\ new.buf \in Seq(Nat) /\ new.empties \in Nat /\ new.events \in Seq(FrameEvent)
      /\ new.do \in {"wait", "guard"}
  <2> HIDE DEF n, c, old, piece
  <2> QED
    BY <1>2, <1>5, ScanType
<1>7. /\ connections_' = [connections_ EXCEPT ![fd] = kept]
      /\ got' = [got EXCEPT ![c] = n]
      /\ events' = [events EXCEPT ![c] = @ \o new.events]
      /\ tripped' = IF new.do = "guard" THEN tripped \cup {c} ELSE tripped
      /\ UNCHANGED <<socket, peer, sent, apc, afd>>
  <2> DEFINE state == [old EXCEPT !.buffer = @ \o piece]
             result == Scan(state.buffer, state.emptyFrameCount)
  <2>1. /\ connections_' = [connections_ EXCEPT ![fd] = Processed(state, result)]
        /\ got' = [got EXCEPT ![c] = n]
        /\ events' = [events EXCEPT ![state.clientAddress] = @ \o result.events]
        /\ tripped' = IF result.do = "guard" THEN tripped \cup {c} ELSE tripped
        /\ UNCHANGED <<socket, peer, sent, apc, afd>>
    BY DEF Recv, accepting, network
  <2>2. /\ state.buffer = old.buffer \o piece /\ state.emptyFrameCount = old.emptyFrameCount
        /\ state.clientAddress = c /\ Processed(state, new) = kept
    <3>1. state = [old EXCEPT !.buffer = old.buffer \o piece] /\ old.clientAddress = c
      BY <1>1
    <3> HIDE DEF state, piece, old, new, c
    <3> DEFINE b == old.buffer \o piece
    <3> HIDE DEF b
    <3>2. /\ state.buffer = b /\ state.emptyFrameCount = old.emptyFrameCount
          /\ state.clientAddress = old.clientAddress
          /\ \A x : Processed(state, x) = Kept(old.clientAddress, x)
      <4>1. state = [old EXCEPT !.buffer = b]
        BY <3>1 DEF b
      <4>2. old \in Entry
        BY <1>2
      <4>3. \A y, s : s = [old EXCEPT !.buffer = y] =>
              /\ s.buffer = y /\ s.emptyFrameCount = old.emptyFrameCount
              /\ s.clientAddress = old.clientAddress
              /\ \A x : Processed(s, x) = Kept(old.clientAddress, x)
        BY <4>2, ProcessedEntry, Zenon
      <4>4. \A s : s = [old EXCEPT !.buffer = b] =>
              /\ s.buffer = b /\ s.emptyFrameCount = old.emptyFrameCount
              /\ s.clientAddress = old.clientAddress
              /\ \A x : Processed(s, x) = Kept(old.clientAddress, x)
        BY <4>3, Zenon
      <4> QED
        BY <4>1, <4>4, Zenon
    <3> QED
      BY <3>1, <3>2, Zenon DEF b
  <2> HIDE DEF state
  <2>3. result = new
    BY <2>2
  <2> HIDE DEF new, kept, result, c
  <2> QED
    BY <2>1, <2>2, <2>3
<1>8. /\ kept \in Entry /\ kept.clientAddress = c /\ kept.emptyFrameCount = new.empties
      /\ new.do = "wait" => kept.buffer = new.buf
  <2>1. << >> \in Seq(Nat)
    OBVIOUS
  <2> HIDE DEF new, c
  <2> QED
    BY <1>1, <1>6, <2>1 DEF Entry, Kept
<1>9. c \notin tripped =>
        /\ Scan(SubSeq(Stream[c], 1, n), 0).do = new.do
        /\ Scan(SubSeq(Stream[c], 1, n), 0).buf = new.buf
        /\ Scan(SubSeq(Stream[c], 1, n), 0).empties = new.empties
        /\ Scan(SubSeq(Stream[c], 1, n), 0).events = events[c] \o new.events
  <2> SUFFICES ASSUME c \notin tripped
               PROVE  /\ Scan(SubSeq(Stream[c], 1, n), 0).do = new.do
                      /\ Scan(SubSeq(Stream[c], 1, n), 0).buf = new.buf
                      /\ Scan(SubSeq(Stream[c], 1, n), 0).empties = new.empties
                      /\ Scan(SubSeq(Stream[c], 1, n), 0).events = events[c] \o new.events
    OBVIOUS
  <2> DEFINE before == Scan(SubSeq(Stream[c], 1, got[c]), 0)
  <2>1. /\ before.do = "wait" /\ events[c] = before.events
        /\ old.buffer = before.buf /\ old.emptyFrameCount = before.empties
    BY <1>1 DEF FrameInv, Framed, WholeScan
  <2>2. LET after == Scan(before.buf \o piece, before.empties)
            whole == Scan(SubSeq(Stream[c], 1, n), 0)
        IN  /\ whole.buf = after.buf /\ whole.empties = after.empties /\ whole.do = after.do
            /\ whole.events = before.events \o after.events
    <3> HIDE DEF n, c
    <3> QED
      BY <1>3, <1>4, <2>1, NextPiece
  <2> HIDE DEF before, c, n, piece, old
  <2> QED
    BY <2>1, <2>2
<1> HIDE DEF fd, c, old, n, piece, new, kept
<1>10. Values'
  <2>1. events[c] \o new.events \in Seq(FrameEvent)
    BY <1>3, <1>6, ConcatProperties
  <2>2. events' \in [Conn -> Seq(FrameEvent)] /\ connections_' \in [Fd -> Entry]
    BY <1>1, <1>7, <1>8, <2>1 DEF FrameInv, Values
  <2>3. got' \in [Conn -> Nat] /\ \A d \in Conn : got'[d] <= sent[d]
    BY <1>1, <1>3, <1>4, <1>7 DEF FrameInv, Values
  <2> QED
    BY <1>7, <2>2, <2>3 DEF FrameInv, Values
<1>11. OneSocket'
  BY <1>7 DEF FrameInv, OneSocket
<1>12. Unheard'
  <2> SUFFICES ASSUME NEW d \in Conn,
                      peer[d] \in {"away", "waiting"} \/ (apc = "register" /\ socket[afd] = d)
               PROVE  got'[d] = 0 /\ events'[d] = << >> /\ d \notin tripped'
    BY <1>7 DEF Unheard
  <2>1. apc = "register" => afd \in Fd
    BY DEF EpollInv, Accepting
  <2>2. d # c
    BY <1>1, <2>1 DEF FrameInv, OneSocket, c
  <2> QED
    BY <1>7, <2>2 DEF FrameInv, Values, Unheard
<1>13. Framed'
  <2> SUFFICES ASSUME NEW d \in Conn, d \notin tripped'
               PROVE  /\ WholeScan(d)'.do = "wait" /\ events'[d] = WholeScan(d)'.events
                      /\ \A g \in Fd : connections_'[g].clientAddress = d =>
                           /\ connections_'[g].buffer = WholeScan(d)'.buf
                           /\ connections_'[g].emptyFrameCount = WholeScan(d)'.empties
    BY DEF Framed
  <2>1. d \notin tripped
    BY <1>7
  <2>2. CASE d = c
    <3>1. new.do = "wait"
      BY <1>6, <1>7, <2>2
    <3>2. WholeScan(d)' = Scan(SubSeq(Stream[c], 1, n), 0)
      <4>1. got'[c] = n
        BY <1>1, <1>7 DEF FrameInv, Values
      <4> QED
        BY <2>2, <4>1 DEF WholeScan
    <3>3. events'[c] = events[c] \o new.events
      BY <1>1, <1>7 DEF FrameInv, Values
    <3>4. ASSUME NEW g \in Fd, connections_'[g].clientAddress = c PROVE connections_'[g] = kept
      <4>1. CASE g = fd
        BY <1>1, <1>7, <4>1 DEF FrameInv, Values
      <4>2. CASE g # fd
        <5>1. connections_'[g] = connections_[g]
          BY <1>7, <4>2 DEF FrameInv, Values
        <5>2. connections_[g] # NoState /\ connections_[g].clientAddress = c
          BY <1>1, <3>4, <5>1, EntryType
        <5>3. socket[g] = c /\ socket[fd] = c
          BY <5>2 DEF EpollInv, Entries, c
        <5> QED
          BY <1>1, <4>2, <5>3 DEF FrameInv, OneSocket
      <4> QED
        BY <4>1, <4>2
    <3> QED
      BY <1>8, <1>9, <2>1, <2>2, <3>1, <3>2, <3>3, <3>4
  <2>3. CASE d # c
    <3>1. WholeScan(d)' = WholeScan(d) /\ events'[d] = events[d]
      <4>1. got'[d] = got[d] /\ events'[d] = events[d]
        BY <1>7, <2>3 DEF FrameInv, Values
      <4> QED
        BY <4>1 DEF WholeScan
    <3>2. ASSUME NEW g \in Fd, connections_'[g].clientAddress = d
          PROVE  connections_'[g] = connections_[g]
      BY <1>1, <1>7, <1>8, <2>3, <3>2 DEF FrameInv, Values
    <3> QED
      BY <2>1, <3>1, <3>2 DEF FrameInv, Framed
  <2> QED
    BY <2>2, <2>3
<1> QED
  BY <1>10, <1>11, <1>12, <1>13 DEF FrameInv

\* A peer that begins its stream anew: nothing was kept of the bytes before.
LEMMA AgainFramed ==
    ASSUME EpollInv, FrameInv, NEW c \in Conn, SendAgain(c)
    PROVE  FrameInv'
<1>1. /\ UNCHANGED <<apc, afd, socket, peer, connections_, tripped>>
      /\ got' = [got EXCEPT ![c] = 0] /\ events' = [events EXCEPT ![c] = << >>]
      /\ got[c] = Len(Stream[c]) /\ c \in Endless
  BY DEF SendAgain, accepting
<1>2. PICK n \in Cut[c] : sent' = [sent EXCEPT ![c] = n]
  BY DEF SendAgain
<1>3. n \in Nat /\ n <= Len(Stream[c])
  BY EpollAssumption, EntryType
<1>4. << >> \in Seq(FrameEvent)
  OBVIOUS
<1>5. Values'
  <2>1. /\ peer' \in [Conn -> PeerStates] /\ sent' \in [Conn -> Nat] /\ got' \in [Conn -> Nat]
        /\ connections_' \in [Fd -> Entry]
    BY <1>1, <1>2, <1>3 DEF FrameInv, Values
  <2>2. events' \in [Conn -> Seq(FrameEvent)]
    BY <1>1, <1>4 DEF FrameInv, Values
  <2>3. ASSUME NEW d \in Conn PROVE got'[d] <= sent'[d] /\ sent'[d] <= Len(Stream[d])
    <3>1. CASE d = c
      BY <1>1, <1>2, <1>3, <3>1 DEF FrameInv, Values
    <3>2. CASE d # c
      BY <1>1, <1>2, <3>2 DEF FrameInv, Values
    <3> QED
      BY <3>1, <3>2
  <2> QED
    BY <2>1, <2>2, <2>3 DEF Values
<1>6. OneSocket'
  BY <1>1 DEF FrameInv, OneSocket
<1>7. Unheard'
  BY <1>1 DEF FrameInv, Unheard, Values
<1>8. SubSeq(Stream[c], 1, got[c]) = Stream[c]
  <2>1. Stream[c] \in Seq(0 .. Base - 1)
    BY EntryType
  <2> QED
    BY <1>1, <2>1
<1>9. WholeScan(c).buf = << >> /\ WholeScan(c).empties = 0
  BY <1>1, <1>8 DEF WholeScan, Endless
<1>10. WholeScan(c)' = St(<< >>, 0, << >>, "wait")
  <2>1. SubSeq(Stream[c], 1, 0) = << >>
    BY EntryType, SubSeqEmpty
  <2>2. got'[c] = 0
    BY <1>1 DEF FrameInv, Values
  <2>3. WholeScan(c)' = Scan(SubSeq(Stream[c], 1, got'[c]), 0)
    BY DEF WholeScan
  <2>4. WholeScan(c)' = Scan(<< >>, 0)
    BY <2>1, <2>2, <2>3, Zenon
  <2> QED
    BY <2>4, ScanNothing
<1>11. ASSUME NEW d \in Conn, d # c PROVE WholeScan(d)' = WholeScan(d)
  BY <1>1, <1>11 DEF WholeScan, FrameInv, Values
<1>12. Framed'
  <2> SUFFICES ASSUME NEW d \in Conn \ tripped
               PROVE  /\ WholeScan(d)'.do = "wait" /\ events'[d] = WholeScan(d)'.events
                      /\ \A fd \in Fd : connections_[fd].clientAddress = d =>
                           /\ connections_[fd].buffer = WholeScan(d)'.buf
                           /\ connections_[fd].emptyFrameCount = WholeScan(d)'.empties
    BY <1>1 DEF Framed
  <2>1. CASE d = c
    <3>1. /\ WholeScan(c)'.do = "wait" /\ WholeScan(c)'.events = << >>
          /\ WholeScan(c)'.buf = << >> /\ WholeScan(c)'.empties = 0
      BY <1>10, StFields
    <3>2. events'[c] = << >>
      BY <1>1 DEF FrameInv, Values
    <3> QED
      BY <1>9, <2>1, <3>1, <3>2 DEF FrameInv, Framed
  <2>2. CASE d # c
    <3>1. events'[d] = events[d]
      BY <1>1, <2>2 DEF FrameInv, Values
    <3> QED
      BY <1>11, <2>2, <3>1 DEF FrameInv, Framed
  <2> QED
    BY <2>1, <2>2
<1> QED
  BY <1>5, <1>6, <1>7, <1>12 DEF FrameInv

\* Every step of the server and the peers keeps the invariant.
LEMMA NextFrameInv == EpollInv /\ FrameInv /\ [Next]_vars => FrameInv'
<1> SUFFICES ASSUME EpollInv, FrameInv, [Next]_vars PROVE FrameInv'
  OBVIOUS
<1>1. CASE Start \/ Stop \/ UNCHANGED vars
  BY <1>1, QuietSteps, ReadsNothingKeeps
<1>2. CASE AcceptThread
  BY <1>2, QuietSteps, ReadsNothingKeeps, AcceptFramed, RegisterFramed DEF AcceptThread
<1>3. ASSUME NEW w \in Worker, WorkerThread(w) PROVE FrameInv'
  BY <1>3, QuietSteps, ReadsNothingKeeps, RecvFramed
<1>4. ASSUME NEW c \in Conn, Connect(c) \/ Send(c) \/ SendAgain(c) \/ Hangup(c)
      PROVE  FrameInv'
  BY <1>4, QuietSteps, ReadsNothingKeeps, AgainFramed
<1> QED
  BY <1>1, <1>2, <1>3, <1>4 DEF Next

\* The events of a client that breaks no limit are those of the bytes received
\* from it, whatever pieces they came in and whoever had its descriptor before.
THEOREM FramesAreOwn == Spec => []OwnFramesOnly
<1>1. FrameInv => OwnFramesOnly
  BY DEF FrameInv, Framed, WholeScan, OwnFramesOnly
<1> QED
  BY <1>1, InitEpollInv, NextEpollInv, InitFrameInv, NextFrameInv, PTL DEF Spec

----------------------------------------------------------------------------
(* Ingest: the TCP and the UDP server *)

\* What Ingest has and Epoll has not.  The threads mpc and apc, the peers and what
\* was received of them have the same names in both: a theorem below is about I!Spec
\* alone, one above about Spec alone, and none about the two at once.
CONSTANTS Protocol, Datagram, NoDatagram, LengthSpace, MaxDatagrams, bufferSize, kBufferChunk,
          kCleanupInterval

VARIABLES protocol, isRunning, fdOpen, newConn, connectionsSinceCleanup, clientThreads_, tpc,
          finished, scan, upc, recvBuffer, last, lastEvent, totalDatagrams, totalEvents,
          totalDrops, totalErrors

I == INSTANCE Ingest

\* What the proofs need to know of the variables' types
IngestTypes == /\ mpc \in I!Stages
               /\ apc \in {"none", "test", "accept", "list", "cleanup", "done"}
               /\ newConn \subseteq Conn /\ clientThreads_ \subseteq Conn
               /\ peer \in [Conn -> PeerStates]
               /\ tpc \in [Conn -> {"none", "test", "recv", "end", "exit", "ended", "joined"}]
               /\ finished \in [Conn -> BOOLEAN]
               /\ upc \in {"none", "test", "call", "recv", "done", "crash"}

\* A thread's connection was accepted.
Started == \A c \in Conn : peer[c] \in {"away", "waiting"} => tpc[c] = "none"

\* A thread runs after start(), and what stop() has joined has ended.
Joined == /\ newConn # {} => apc = "list"
          /\ mpc = "new" => apc = "none" /\ upc = "none"
          /\ mpc \in {"clients", "stopped"} => I!ServerThreadEnded
          /\ mpc = "stopped" => \A c \in Conn : tpc[c] \in {"none", "joined"}

\* The invariant of the threads
JoinInv == IngestTypes /\ Started /\ Joined /\ I!ThreadsListed

\* Before start() there is no thread.
LEMMA InitJoinInv == I!Init => JoinInv
  BY DEF I!Init, JoinInv, IngestTypes, Started, Joined, I!ThreadsListed, I!Stages, PeerStates

\* The thread that calls start() and stop()
LEMMA MainJoins ==
    ASSUME JoinInv, I!TcpStart \/ I!UdpStart \/ I!Stop
    PROVE  JoinInv'
<1> USE DEF JoinInv, IngestTypes, Started, Joined, I!ThreadsListed, I!Stages
<1>1. CASE I!TcpStart
  BY <1>1 DEF I!TcpStart, I!clients, I!udp, I!ServerThreadEnded
<1>2. CASE I!UdpStart
  BY <1>2 DEF I!UdpStart, I!clients, I!accepting, I!ServerThreadEnded
<1>3. CASE I!StopFlag
  BY <1>3 DEF I!StopFlag, I!accepting, I!clients, I!udp, I!ServerThreadEnded
<1>4. CASE I!StopClose
  BY <1>4 DEF I!StopClose, I!accepting, I!clients, I!udp, I!ServerThreadEnded
<1>5. CASE I!StopJoin
  BY <1>5 DEF I!StopJoin, I!accepting, I!clients, I!udp, I!ServerThreadEnded
<1>6. CASE I!StopClients
  BY <1>6 DEF I!StopClients, I!JoinThreads, I!udp, I!ServerThreadEnded
<1> QED
  BY <1>1, <1>2, <1>3, <1>4, <1>5, <1>6 DEF I!Stop

\* The accept thread
LEMMA AcceptJoins ==
    ASSUME JoinInv, I!AcceptThread \/ I!AcceptError \/ \E c \in Conn : I!Accept(c)
    PROVE  JoinInv'
<1> USE DEF JoinInv, IngestTypes, Started, Joined, I!ThreadsListed, I!Stages
<1>1. CASE I!AcceptTest
  BY <1>1 DEF I!AcceptTest, I!server, I!clients, I!udp, I!ServerThreadEnded
<1>2. CASE I!AcceptWoken \/ I!AcceptError
  BY <1>2 DEF I!AcceptWoken, I!AcceptError, I!server, I!clients, I!udp, I!ServerThreadEnded
<1>3. CASE I!List
  BY <1>3 DEF I!List, I!server, I!clients, I!udp, I!ServerThreadEnded
<1>4. CASE I!Cleanup
  BY <1>4 DEF I!Cleanup, I!JoinThreads, I!server, I!udp, I!ServerThreadEnded
<1>5. ASSUME NEW c \in Conn, I!Accept(c) PROVE JoinInv'
  BY <1>5 DEF I!Accept, I!server, I!udp, I!ServerThreadEnded, PeerStates
<1> QED
  BY <1>1, <1>2, <1>3, <1>4, <1>5 DEF I!AcceptThread

\* The peers and the clients' threads
LEMMA ClientJoins ==
    ASSUME JoinInv, NEW c \in Conn, I!Connect(c) \/ I!Hangup(c) \/ I!ClientThread(c)
    PROVE  JoinInv'
<1> USE DEF JoinInv, IngestTypes, Started, Joined, I!ThreadsListed, I!Stages
<1>1. CASE I!Connect(c) \/ I!Hangup(c)
  BY <1>1 DEF I!Connect, I!Hangup, I!server, I!accepting, I!udp, I!ServerThreadEnded, PeerStates
<1>2. CASE I!ClientTest(c)
  BY <1>2 DEF I!ClientTest, I!server, I!accepting, I!udp, I!ServerThreadEnded
<1>3. CASE I!Receive(c)
  <2>1. PICK s \in {"test", "end"} : tpc' = [tpc EXCEPT ![c] = s]
    BY <1>3 DEF I!Receive
  <2>2. tpc[c] = "recv" /\ UNCHANGED <<I!server, I!accepting, peer, finished, I!udp>>
    BY <1>3 DEF I!Receive
  <2> QED
    BY <2>1, <2>2 DEF I!server, I!accepting, I!udp, I!ServerThreadEnded
<1>4. CASE I!Disconnected(c)
  BY <1>4 DEF I!Disconnected, I!server, I!accepting, I!udp, I!ServerThreadEnded
<1>5. CASE I!ClientEnd(c)
  BY <1>5 DEF I!ClientEnd, I!server, I!accepting, I!udp, I!ServerThreadEnded, PeerStates
<1>6. CASE I!ClientExit(c)
  BY <1>6 DEF I!ClientExit, I!server, I!accepting, I!udp, I!ServerThreadEnded
<1> QED
  BY <1>1, <1>2, <1>3, <1>4, <1>5, <1>6 DEF I!ClientThread

\* The UDP server's thread
LEMMA ReceiverJoins ==
    ASSUME JoinInv, \/ I!ReceiveThread \/ I!UdpInterrupted \/ UNCHANGED I!vars
                    \/ \E d \in Datagram : I!UdpReceive(d) \/ I!UdpOverrun(d)
    PROVE  JoinInv'
<1> USE DEF JoinInv, IngestTypes, Started, Joined, I!ThreadsListed, I!Stages
<1>1. CASE I!UdpTest
  BY <1>1 DEF I!UdpTest, I!server, I!accepting, I!clients, I!ServerThreadEnded
<1>2. CASE I!UdpCall \/ I!UdpInterrupted
  BY <1>2 DEF I!UdpCall, I!UdpInterrupted, I!server, I!accepting, I!clients, I!ServerThreadEnded
<1>3. ASSUME NEW d \in Datagram, I!UdpReceive(d) PROVE JoinInv'
  <2>1. upc = "recv" /\ upc' = "test" /\ UNCHANGED <<I!server, I!accepting, I!clients>>
    BY <1>3 DEF I!UdpReceive
  <2> QED
    BY <2>1 DEF I!server, I!accepting, I!clients, I!ServerThreadEnded
<1>4. CASE UNCHANGED I!vars
  BY <1>4 DEF I!vars, I!server, I!accepting, I!clients, I!udp, I!ServerThreadEnded
<1>5. ASSUME NEW d \in Datagram, I!UdpOverrun(d) PROVE JoinInv'
  BY <1>5 DEF I!UdpOverrun, I!accepting, I!clients, I!ServerThreadEnded
<1> QED
  BY <1>1, <1>2, <1>3, <1>4, <1>5 DEF I!ReceiveThread

\* Every step keeps the invariant.
LEMMA NextJoinInv == JoinInv /\ [I!Next]_(I!vars) => JoinInv'
  BY MainJoins, AcceptJoins, ClientJoins, ReceiverJoins DEF I!Next

\* stop() joins the server's thread and every client's thread, also that of a
\* connection accepted at the last moment.
THEOREM ThreadsAreJoined == I!Spec => []I!ThreadsJoined
<1>1. JoinInv => I!ThreadsJoined
  BY DEF JoinInv, Joined, I!ThreadsJoined, I!NoThreadAfterStop, I!ServerThreadEnded
<1> QED
  BY <1>1, InitJoinInv, NextJoinInv, PTL DEF I!Spec

\* The servers cut frames with the same loop.
LEMMA SameScan == \A b, e : I!Scan(b, e) = Scan(b, e)
  BY Zenon
     DEF I!Scan, Scan, I!Loop, Loop, I!LoopState, LoopState, I!CRITICAL, CRITICAL, I!Iteration,
         Iteration, I!parseFullFrame, parseFullFrame, I!parseFrameBody, parseFrameBody,
         I!ReadUintBE, ReadUintBE, I!Bad, Bad, I!frameLen, frameLen

\* What was received is the beginning of the stream.
Received == /\ got \in [Conn -> Nat] /\ \A c \in Conn : got[c] <= Len(Stream[c])
            /\ scan \in [Conn -> LoopState]

\* A client's thread that receives no more
PastReceiving == {"end", "exit", "ended", "joined"}

\* What was found and kept is what the bytes received give in one piece; a thread
\* whose client broke a limit is at its end.
Pieced == \A c \in Conn :
            /\ scan[c].events = WholeScan(c).events
            /\ got[c] > 0 => scan[c].do = WholeScan(c).do
            /\ WholeScan(c).do # "guard" => /\ scan[c].buf = WholeScan(c).buf
                                            /\ scan[c].empties = WholeScan(c).empties
            /\ WholeScan(c).do = "guard" => tpc[c] \in PastReceiving

\* The invariant of the pieces
PieceInv == Received /\ Pieced

\* Before start() nothing was received.
LEMMA InitPieceInv ==
    ASSUME I!IngestAssumption, I!Init
    PROVE  PieceInv
<1>1. \A c \in Conn : Stream[c] \in Seq(0 .. Base - 1) /\ Len(Stream[c]) \in Nat
  BY DEF I!IngestAssumption
<1>2. I!Fresh = St(<< >>, 0, << >>, "more") /\ I!Fresh \in LoopState
  <2>1. I!Fresh = St(<< >>, 0, << >>, "more")
    BY DEF I!Fresh, St
  <2>2. << >> \in Seq(Nat) /\ << >> \in Seq(FrameEvent) /\ 0 \in Nat
    OBVIOUS
  <2> QED
    BY <2>1, <2>2, StType
<1>3. Received
  BY <1>1, <1>2 DEF I!Init, Received
<1>4. ASSUME NEW c \in Conn PROVE WholeScan(c) = St(<< >>, 0, << >>, "wait")
  <2>1. SubSeq(Stream[c], 1, 0) = << >>
    BY <1>1, SubSeqEmpty
  <2>2. Scan(<< >>, 0) = St(<< >>, 0, << >>, "wait")
    BY ScanNothing
  <2> QED
    BY <2>1, <2>2 DEF WholeScan, I!Init
<1>5. Pieced
  <2> SUFFICES ASSUME NEW c \in Conn
               PROVE  /\ scan[c].events = WholeScan(c).events
                      /\ got[c] > 0 => scan[c].do = WholeScan(c).do
                      /\ scan[c].buf = WholeScan(c).buf
                      /\ scan[c].empties = WholeScan(c).empties
                      /\ WholeScan(c).do # "guard"
    BY DEF Pieced
  <2>1. /\ WholeScan(c).events = << >> /\ WholeScan(c).do = "wait"
        /\ WholeScan(c).buf = << >> /\ WholeScan(c).empties = 0
    BY <1>4, StFields
  <2>2. /\ I!Fresh.events = << >> /\ I!Fresh.buf = << >> /\ I!Fresh.empties = 0
    BY <1>2, StFields
  <2> QED
    BY <2>1, <2>2 DEF I!Init
<1> QED
  BY <1>3, <1>5 DEF PieceInv

\* All other steps receive nothing, and no thread comes back from its end.
LEMMA OthersReceiveNothing ==
    ASSUME JoinInv, PieceInv, UNCHANGED <<got, scan>>,
           \A c \in Conn : tpc[c] \in PastReceiving => tpc'[c] \in PastReceiving
    PROVE  PieceInv'
<1>1. \A c \in Conn : WholeScan(c)' = WholeScan(c)
  BY DEF WholeScan
<1>2. Received'
  BY DEF PieceInv, Received
<1>3. Pieced'
  BY <1>1 DEF PieceInv, Pieced
<1> QED
  BY <1>2, <1>3 DEF PieceInv

\* The state of a client after the loop
LEMMA AfterScanState ==
    ASSUME NEW old \in LoopState, NEW new \in LoopState, NEW b
    PROVE  I!AfterScan([old EXCEPT !.buf = b], new)
             = St(new.buf, new.empties, old.events \o new.events, new.do)
<1>1. [old EXCEPT !.buf = b].events = old.events
  <2>1. old = St(old.buf, old.empties, old.events, old.do)
    BY StType
  <2>2. \A x, y, v, d : [St(x, y, v, d) EXCEPT !.buf = b].events = v
    BY DEF St
  <2> QED
    BY <2>1, <2>2
<1>2. PICK x, y, v, d : new = St(x, y, v, d)
  BY StType
<1>3. new.buf = x /\ new.empties = y /\ new.events = v /\ new.do = d
  BY <1>2, StFields
<1>4. \A u : [new EXCEPT !.events = u] = St(x, y, u, d)
  BY <1>2 DEF St
<1>5. I!AfterScan([old EXCEPT !.buf = b], new)
        = [new EXCEPT !.events = [old EXCEPT !.buf = b].events \o new.events]
  BY Zenon DEF I!AfterScan
<1>6. I!AfterScan([old EXCEPT !.buf = b], new) = St(x, y, old.events \o v, d)
  BY <1>1, <1>3, <1>4, <1>5
<1> QED
  BY <1>3, <1>6

\* A piece is received: the bytes kept and the piece give what the stream up to
\* here gives in one.
LEMMA ReceiveKeepsPieces ==
    ASSUME I!IngestAssumption, JoinInv, PieceInv, NEW c \in Conn, I!Receive(c)
    PROVE  PieceInv'
<1>1. /\ Stream[c] \in Seq(0 .. Base - 1) /\ Len(Stream[c]) \in Nat /\ kBufferChunk \in Nat
  BY DEF I!IngestAssumption
<1>2. /\ got[c] \in Nat /\ got[c] <= Len(Stream[c]) /\ scan[c] \in LoopState /\ tpc[c] = "recv"
  BY DEF PieceInv, Received, I!Receive
<1> DEFINE top == Min({got[c] + kBufferChunk, Len(Stream[c])})
<1>3. top \in Nat /\ top <= Len(Stream[c])
  <2> DEFINE S == {got[c] + kBufferChunk, Len(Stream[c])}
  <2>1. S \in SUBSET Nat /\ S # {}
    BY <1>1, <1>2
  <2>2. PICK i \in S : \A j \in S : i <= j
    BY <2>1, LeastNumber
  <2>3. Min(S) \in S /\ \A j \in S : Min(S) <= j
    BY <2>2 DEF Min
  <2> QED
    BY <2>1, <2>3
<1> DEFINE before == Scan(SubSeq(Stream[c], 1, got[c]), 0)
           old == scan[c]
           After(n) == Scan(old.buf \o SubSeq(Stream[c], got[c] + 1, n), old.empties)
<1>4. PICK n \in got[c] + 1 .. top :
        /\ got' = [got EXCEPT ![c] = n]
        /\ scan' = [scan EXCEPT ![c] =
                      I!AfterScan([old EXCEPT !.buf = old.buf \o SubSeq(Stream[c], got[c] + 1, n)],
                                  After(n))]
        /\ tpc' = [tpc EXCEPT ![c] = IF After(n).do = "guard" THEN "end" ELSE "test"]
  BY SameScan, Zenon DEF I!Receive, I!Min, Min
<1> DEFINE piece == SubSeq(Stream[c], got[c] + 1, n)
           new == Scan(old.buf \o piece, old.empties)
           result == St(new.buf, new.empties, old.events \o new.events, new.do)
<1>5. n \in Nat /\ n > 0 /\ n \in 0 .. Len(Stream[c]) /\ got[c] \in 0 .. n
  <2> HIDE DEF top
  <2> QED
    BY <1>1, <1>2, <1>3
<1>6. /\ old.buf \in Seq(Nat) /\ old.empties \in Nat /\ old.events \in Seq(FrameEvent)
      /\ old.buf \o piece \in Seq(Nat)
  <2>1. Stream[c] \in Seq(Nat)
    BY <1>1, Bytes
  <2>2. piece \in Seq(Nat)
    BY <1>5, <2>1, FirstAndNext
  <2>3. old.buf \in Seq(Nat) /\ old.empties \in Nat /\ old.events \in Seq(FrameEvent)
    BY <1>2, StType
  <2> HIDE DEF old, piece
  <2> QED
    BY <2>2, <2>3, ConcatProperties
<1>7. /\ new \in LoopState /\ new.buf \in Seq(Nat) /\ new.empties \in Nat
      /\ new.events \in Seq(FrameEvent) /\ new.do \in {"wait", "guard"}
  <2> HIDE DEF old, piece
  <2> QED
    BY <1>6, ScanType
<1>8. result \in LoopState
  <2> HIDE DEF new, old
  <2>1. old.events \o new.events \in Seq(FrameEvent)
    BY <1>6, <1>7, ConcatProperties
  <2>2. \A v \in Seq(FrameEvent) : St(new.buf, new.empties, v, new.do) \in LoopState
    BY <1>7, StType
  <2> QED
    BY <2>1, <2>2, Zenon
<1>9. /\ got' = [got EXCEPT ![c] = n] /\ scan' = [scan EXCEPT ![c] = result]
      /\ tpc' = [tpc EXCEPT ![c] = IF new.do = "guard" THEN "end" ELSE "test"]
  <2>1. I!AfterScan([old EXCEPT !.buf = old.buf \o piece], new) = result
    <3>1. \A b : I!AfterScan([old EXCEPT !.buf = b], new) = result
      <4> HIDE DEF old, new
      <4> QED
        BY <1>2, <1>7, AfterScanState, Zenon DEF old
    <3> HIDE DEF old, new, result
    <3> QED
      BY <3>1, Zenon
  <2> HIDE DEF result
  <2> QED
    BY <1>4, <2>1, Zenon
<1>10. before.do = "wait" /\ old.buf = before.buf /\ old.empties = before.empties
       /\ old.events = before.events
  <2>1. before.do \in {"wait", "guard"}
    <3>1. Stream[c] \in Seq(Nat)
      BY <1>1, Bytes
    <3>2. SubSeq(Stream[c], 1, got[c]) \in Seq(Nat)
      BY <1>5, <3>1, FirstAndNext
    <3> QED
      BY <3>2, ScanType
  <2> QED
    BY <1>2, <2>1 DEF PieceInv, Pieced, PastReceiving, WholeScan
<1>11. LET whole == Scan(SubSeq(Stream[c], 1, n), 0)
       IN  /\ whole.buf = new.buf /\ whole.empties = new.empties /\ whole.do = new.do
           /\ whole.events = old.events \o new.events
  <2>1. LET after == Scan(before.buf \o piece, before.empties)
            whole == Scan(SubSeq(Stream[c], 1, n), 0)
        IN  /\ whole.buf = after.buf /\ whole.empties = after.empties /\ whole.do = after.do
            /\ whole.events = before.events \o after.events
    BY <1>1, <1>5, <1>10, NextPiece, ZenonT(60)
  <2> HIDE DEF before, piece, old
  <2> QED
    BY <1>10, <2>1
<1> HIDE DEF old, before, piece, new, top
<1>12. /\ result.buf = new.buf /\ result.empties = new.empties /\ result.do = new.do
       /\ result.events = old.events \o new.events
  BY DEF St
<1> HIDE DEF result
<1>13. Received'
  BY <1>5, <1>8, <1>9, <1>1 DEF PieceInv, Received
<1>14. Pieced'
  <2> SUFFICES ASSUME NEW d \in Conn
               PROVE  /\ scan'[d].events = WholeScan(d)'.events
                      /\ got'[d] > 0 => scan'[d].do = WholeScan(d)'.do
                      /\ WholeScan(d)'.do # "guard" =>
                           /\ scan'[d].buf = WholeScan(d)'.buf
                           /\ scan'[d].empties = WholeScan(d)'.empties
                      /\ WholeScan(d)'.do = "guard" => tpc'[d] \in PastReceiving
    BY DEF Pieced
  <2>1. CASE d = c
    <3>1. scan'[d] = result /\ got'[d] = n
      BY <1>9, <2>1 DEF PieceInv, Received
    <3>2. WholeScan(d)' = Scan(SubSeq(Stream[c], 1, n), 0)
      BY <2>1, <3>1 DEF WholeScan
    <3>3. new.do = "guard" => tpc'[d] = "end"
      BY <1>9, <2>1 DEF JoinInv, IngestTypes
    <3> QED
      BY <1>11, <1>12, <3>1, <3>2, <3>3 DEF PastReceiving
  <2>2. CASE d # c
    <3>1. scan'[d] = scan[d] /\ got'[d] = got[d] /\ tpc'[d] = tpc[d]
      BY <1>9, <2>2 DEF PieceInv, Received, JoinInv, IngestTypes
    <3>2. WholeScan(d)' = WholeScan(d)
      BY <3>1 DEF WholeScan
    <3> QED
      BY <3>1, <3>2 DEF PieceInv, Pieced
  <2> QED
    BY <2>1, <2>2
<1> QED
  BY <1>13, <1>14 DEF PieceInv

\* Every step keeps the invariant.
LEMMA NextPieceInv ==
    ASSUME I!IngestAssumption, JoinInv, PieceInv, [I!Next]_(I!vars)
    PROVE  PieceInv'
<1>1. CASE I!TcpStart \/ I!UdpStart \/ I!Stop
  <2>1. /\ UNCHANGED <<got, scan>>
        /\ \A c \in Conn : tpc'[c] = tpc[c] \/ tpc'[c] = "joined"
    BY <1>1
       DEF I!TcpStart, I!UdpStart, I!Stop, I!StopFlag, I!StopClose, I!StopJoin, I!StopClients,
           I!JoinThreads, I!clients
  <2> QED
    BY <2>1, OthersReceiveNothing DEF PastReceiving
<1>2. CASE I!AcceptThread \/ I!AcceptError
  <2>1. /\ UNCHANGED <<got, scan>>
        /\ \A c \in Conn : tpc'[c] = tpc[c] \/ tpc'[c] = "joined"
    BY <1>2
       DEF I!AcceptThread, I!AcceptError, I!AcceptTest, I!AcceptWoken, I!List, I!Cleanup,
           I!JoinThreads, I!clients
  <2> QED
    BY <2>1, OthersReceiveNothing DEF PastReceiving
<1>3. ASSUME NEW c \in Conn, I!Accept(c) \/ I!Connect(c) \/ I!Hangup(c) PROVE PieceInv'
  <2>1. /\ UNCHANGED <<got, scan>>
        /\ \A d \in Conn : tpc[d] \in PastReceiving => tpc'[d] = tpc[d]
    BY <1>3 DEF I!Accept, I!Connect, I!Hangup, JoinInv, IngestTypes, Started, PastReceiving
  <2> QED
    BY <2>1, OthersReceiveNothing
<1>4. ASSUME NEW c \in Conn, I!ClientThread(c) PROVE PieceInv'
  <2>1. CASE I!Receive(c)
    BY <2>1, ReceiveKeepsPieces
  <2>2. CASE I!ClientTest(c) \/ I!Disconnected(c) \/ I!ClientEnd(c) \/ I!ClientExit(c)
    <3>1. /\ UNCHANGED <<got, scan>>
          /\ \A d \in Conn : tpc[d] \in PastReceiving => tpc'[d] \in PastReceiving
      BY <2>2
         DEF I!ClientTest, I!Disconnected, I!ClientEnd, I!ClientExit, JoinInv, IngestTypes,
             PastReceiving
    <3> QED
      BY <3>1, OthersReceiveNothing
  <2> QED
    BY <1>4, <2>1, <2>2 DEF I!ClientThread
<1>5. CASE \/ I!ReceiveThread \/ I!UdpInterrupted \/ UNCHANGED I!vars
           \/ \E d \in Datagram : I!UdpReceive(d) \/ I!UdpOverrun(d)
  <2>1. UNCHANGED <<got, scan, tpc>>
    BY <1>5
       DEF I!ReceiveThread, I!UdpTest, I!UdpCall, I!UdpInterrupted, I!UdpReceive, I!UdpOverrun,
           I!vars, I!clients
  <2> QED
    BY <2>1, OthersReceiveNothing
<1> QED
  BY <1>1, <1>2, <1>3, <1>4, <1>5 DEF I!Next

\* A TCP client's frames are those of its bytes in one piece, whatever pieces recv()
\* gave, and so are the bytes kept and the decision to close the connection.
THEOREM FramesAreWhole ==
    ASSUME I!IngestAssumption
    PROVE  I!Spec => []I!PiecesDoNotMatter
<1>1. I!Init => JoinInv /\ PieceInv
  BY InitJoinInv, InitPieceInv
<1>2. (JoinInv /\ PieceInv) /\ [I!Next]_(I!vars) => (JoinInv /\ PieceInv)'
  BY NextJoinInv, NextPieceInv
<1>3. PieceInv => I!PiecesDoNotMatter
  BY SameScan, Zenon DEF PieceInv, Pieced, WholeScan, I!PiecesDoNotMatter
<1> QED
  BY <1>1, <1>2, <1>3, PTL DEF I!Spec

\* The UDP server has no other thread, and its counters are numbers that add up.
Counted == /\ recvBuffer \in [1 .. bufferSize -> Nat]
           /\ totalDatagrams \in Nat /\ totalEvents \in Nat /\ totalDrops \in Nat
           /\ totalErrors \in Nat
           /\ protocol = "udp" => apc = "none" /\ \A c \in Conn : tpc[c] = "none"

\* The invariant of the datagrams
DatagramInv == Counted /\ I!DatagramsSound

\* Two parts of sequences that have the same elements are the same.
LEMMA SameSlice ==
    ASSUME NEW s \in Seq(Nat), NEW t \in Seq(Nat), NEW k \in Nat, k <= Len(s), k <= Len(t),
           \A i \in 1 .. k : s[i] = t[i],
           NEW m \in Nat \ {0}, NEW n \in 0 .. k, m <= n + 1
    PROVE  SubSeq(s, m, n) = SubSeq(t, m, n)
<1>1. Len(s) \in Nat /\ Len(t) \in Nat /\ n \in 0 .. Len(s) /\ n \in 0 .. Len(t)
  BY LenProperties
<1> DEFINE a == SubSeq(s, m, n)
           b == SubSeq(t, m, n)
<1>2. /\ a \in Seq(Nat) /\ Len(a) = n - m + 1 /\ \A i \in 1 .. n - m + 1 : a[i] = s[m + i - 1]
  BY <1>1, Slice
<1>3. /\ b \in Seq(Nat) /\ Len(b) = n - m + 1 /\ \A i \in 1 .. n - m + 1 : b[i] = t[m + i - 1]
  BY <1>1, Slice
<1> HIDE DEF a, b
<1>4. ASSUME NEW i \in 1 .. n - m + 1 PROVE a[i] = b[i]
  <2>1. m + i - 1 \in 1 .. k
    OBVIOUS
  <2> QED
    BY <1>2, <1>3, <2>1
<1>5. a = b
  BY <1>2, <1>3, <1>4, SeqEqual
<1> QED
  BY <1>5 DEF a, b

\* So are their first elements.
LEMMA SameHead ==
    ASSUME NEW s \in Seq(Nat), NEW t \in Seq(Nat), NEW k \in Nat, k <= Len(s), k <= Len(t),
           \A i \in 1 .. k : s[i] = t[i], NEW n \in 0 .. k
    PROVE  SubSeq(s, 1, n) = SubSeq(t, 1, n)
<1>1. 1 \in Nat \ {0} /\ 1 <= n + 1
  OBVIOUS
<1> QED
  BY <1>1, SameSlice

\* A sum that does not wrap is exact.
LEMMA SmallSum ==
    ASSUME NEW a \in Nat, NEW b \in Nat \ {0}, a < b
    PROVE  a % b = a
  OBVIOUS

\* A frame inside the first n bytes of the buffer is the frame of the datagram
\* they came with, unless the sum that says so wraps.
LEMMA FrameOfDatagram ==
    ASSUME I!IngestAssumption, NEW d \in Datagram, NEW n \in Nat, n <= Len(d), n <= bufferSize,
           NEW buffer \in Seq(Nat), Len(buffer) = bufferSize, \A i \in 1 .. n : buffer[i] = d[i],
           NEW event \in I!EventsOf(buffer, n), event # Bad, ~I!Wraps(frameLen(d))
    PROVE  LET size == HeaderSize + frameLen(d)
           IN  size <= Len(d) /\ event = parseFullFrame(SubSeq(d, 1, size))
<1> DEFINE len == frameLen(d)
           size == HeaderSize + len
           frame == SubSeq(d, 1, size)
<1>1. /\ d \in Seq(Nat) /\ Len(d) \in Nat /\ bufferSize \in Nat /\ HeaderSize \in Nat \ {0}
  <2>1. d \in Seq(0 .. Base - 1)
    BY DEF I!IngestAssumption
  <2> QED
    BY <2>1, Bytes, FramingAssumption DEF I!IngestAssumption
<1>2. I!Accepted(buffer, n)
  <2> SUFFICES ASSUME ~I!Accepted(buffer, n) PROVE FALSE
    OBVIOUS
  <2>1. ~I!Overreads(buffer, n)
    BY DEF I!Overreads
  <2>2. I!EventsOf(buffer, n) = {I!Bad}
    BY <2>1 DEF I!EventsOf
  <2> QED
    BY <2>2 DEF I!Bad, Bad
<1>3. /\ \A b : I!frameLen(b) = frameLen(b) /\ I!parseFrameBody(b) = parseFrameBody(b)
  BY DEF I!frameLen, frameLen, I!ReadUintBE, ReadUintBE, I!parseFrameBody, parseFrameBody,
         I!Bad, Bad, I!CRITICAL, CRITICAL
<1>4. n >= HeaderSize /\ HeaderSize \in 0 .. n /\ I!Fits(I!frameLen(buffer), n)
  BY <1>1, <1>2 DEF I!Accepted
<1>5. frameLen(buffer) = len /\ len \in Nat
  <2>1. SubSeq(buffer, 1, HeaderSize) = SubSeq(d, 1, HeaderSize)
    BY <1>1, <1>4, SameHead
  <2>2. frameLen(d) \in Nat
    BY <1>1, <1>4, FrameLenType
  <2> QED
    BY <2>1, <2>2 DEF frameLen
<1> HIDE DEF len
<1>6. /\ size \in Nat /\ size <= n /\ size \in 0 .. Len(d) /\ size <= Len(buffer)
      /\ HeaderSize \in 0 .. size /\ len = size - HeaderSize
  <2>1. I!Fits(len, n)
    BY <1>3, <1>4, <1>5
  <2>2. (HeaderSize + len) % LengthSpace <= n
    BY <2>1, Zenon DEF I!Fits
  <2>3. HeaderSize + len \in Nat /\ HeaderSize + len < LengthSpace /\ LengthSpace \in Nat \ {0}
    BY <1>1, <1>5 DEF I!Wraps, len, I!IngestAssumption
  <2>4. (HeaderSize + len) % LengthSpace = HeaderSize + len
    BY <2>3, SmallSum
  <2> QED
    BY <1>1, <1>5, <2>2, <2>4
<1>7. 1 \in Nat \ {0} /\ 1 <= size + 1
  BY <1>1, <1>6
<1> HIDE DEF size
<1>8. frame \in Seq(Nat) /\ Len(frame) = size /\ \A i \in 1 .. size : frame[i] = d[i]
  <2>1. /\ frame \in Seq(Nat) /\ Len(frame) = size - 1 + 1
        /\ \A i \in 1 .. size - 1 + 1 : frame[i] = d[1 + i - 1]
    BY <1>1, <1>6, <1>7, Slice
  <2> HIDE DEF frame
  <2> QED
    BY <1>6, <2>1
<1> HIDE DEF frame
<1>9. frameLen(frame) = len
  <2>1. size <= Len(d) /\ size <= Len(frame)
    BY <1>1, <1>6, <1>8
  <2>2. SubSeq(frame, 1, HeaderSize) = SubSeq(d, 1, HeaderSize)
    BY ONLY <1>1, <1>6, <1>8, <2>1, SameHead
  <2> QED
    BY <2>2 DEF frameLen, len
<1>10. SubSeq(frame, HeaderSize + 1, size) = SubSeq(buffer, HeaderSize + 1, size)
  <2> DEFINE first == HeaderSize + 1
  <2>1. /\ first \in Nat \ {0} /\ first <= size + 1 /\ size \in 0 .. size
        /\ size <= Len(frame) /\ size <= Len(buffer)
    BY <1>1, <1>6, <1>8
  <2>2. \A i \in 1 .. size : frame[i] = buffer[i]
    <3> SUFFICES ASSUME NEW i \in 1 .. size PROVE frame[i] = buffer[i]
      OBVIOUS
    <3>1. i \in 1 .. n
      BY <1>6
    <3> QED
      BY <1>8, <3>1
  <2> HIDE DEF first
  <2>3. SubSeq(frame, first, size) = SubSeq(buffer, first, size)
    BY <1>6, <1>8, <2>1, <2>2, SameSlice
  <2> QED
    BY <2>3 DEF first
<1>11. parseFullFrame(frame) = parseFrameBody(SubSeq(frame, HeaderSize + 1, size))
  <2>1. ~(Len(frame) < HeaderSize) /\ frameLen(frame) = Len(frame) - HeaderSize
    BY <1>1, <1>6, <1>8, <1>9
  <2> QED
    BY <1>8, <2>1 DEF parseFullFrame
<1>12. event = parseFullFrame(frame) /\ size <= Len(d)
  <2>1. event = parseFrameBody(SubSeq(buffer, HeaderSize + 1, size))
    <3>1. I!frameLen(buffer) = len
      BY <1>3, <1>5
    <3>2. ~I!Overreads(buffer, n)
      BY <3>1 DEF I!Overreads, len
    <3>3. event = I!parseFrameBody(SubSeq(buffer, HeaderSize + 1,
                                          HeaderSize + I!frameLen(buffer)))
      BY <1>2, <3>2 DEF I!EventsOf
    <3> QED
      BY <1>3, <3>1, <3>3, Zenon DEF size
  <2>2. size <= Len(d)
    BY <1>1, <1>6
  <2> QED
    BY <1>10, <1>11, <2>1, <2>2
<1> QED
  BY <1>12 DEF frame, size, len

\* Before start() nothing is counted.
LEMMA InitDatagramInv ==
    ASSUME I!IngestAssumption, I!Init
    PROVE  DatagramInv
<1>1. Counted
  BY DEF I!Init, Counted, I!IngestAssumption
<1> QED
  BY <1>1
     DEF I!Init, DatagramInv, I!DatagramsSound, I!DatagramsAddUp, I!NoStaleBytes, I!IngestAssumption

\* The steps of the TCP server, and those that receive nothing
LEMMA OthersCountNothing ==
    ASSUME DatagramInv, UNCHANGED <<protocol, recvBuffer, last, lastEvent, totalDatagrams,
                                    totalErrors>>,
           totalEvents' \in Nat /\ totalDrops' \in Nat,
           protocol = "udp" => /\ apc' = "none" /\ \A c \in Conn : tpc'[c] = "none"
                               /\ UNCHANGED <<totalEvents, totalDrops>>
    PROVE  DatagramInv'
<1>1. Counted'
  BY DEF DatagramInv, Counted
<1>2. I!DatagramsAddUp'
  BY DEF DatagramInv, I!DatagramsSound, I!DatagramsAddUp
<1>3. I!NoStaleBytes'
  BY DEF DatagramInv, I!DatagramsSound, I!NoStaleBytes
<1> QED
  BY <1>1, <1>2, <1>3 DEF DatagramInv, I!DatagramsSound

\* tryPush takes an event or refuses it.
LEMMA PushCounts ==
    ASSUME NEW n \in Nat, totalEvents \in Nat, totalDrops \in Nat, I!Push(n)
    PROVE  /\ totalEvents' \in Nat /\ totalDrops' \in Nat
           /\ totalEvents' + totalDrops' = totalEvents + totalDrops + n
  BY DEF I!Push

\* The frames of a piece are counted as events and drops.
LEMMA PieceCounts ==
    ASSUME I!IngestAssumption, PieceInv, totalEvents \in Nat, totalDrops \in Nat,
           NEW c \in Conn, I!Receive(c)
    PROVE  totalEvents' \in Nat /\ totalDrops' \in Nat
<1>1. /\ Stream[c] \in Seq(Nat) /\ Len(Stream[c]) \in Nat /\ kBufferChunk \in Nat
  <2>1. Stream[c] \in Seq(0 .. Base - 1)
    BY DEF I!IngestAssumption
  <2> QED
    BY <2>1, Bytes DEF I!IngestAssumption
<1>2. /\ got[c] \in Nat /\ scan[c].buf \in Seq(Nat) /\ scan[c].empties \in Nat
  BY StType DEF PieceInv, Received
<1> DEFINE S == {got[c] + kBufferChunk, Len(Stream[c])}
           Events(n) == Scan(scan[c].buf \o SubSeq(Stream[c], got[c] + 1, n),
                             scan[c].empties).events
<1>3. Min(S) \in Nat /\ Min(S) <= Len(Stream[c])
  <2>1. S \in SUBSET Nat /\ S # {}
    BY <1>1, <1>2
  <2>2. PICK i \in S : \A j \in S : i <= j
    BY <2>1, LeastNumber
  <2>3. Min(S) \in S /\ \A j \in S : Min(S) <= j
    BY <2>2 DEF Min
  <2> QED
    BY <2>1, <2>3
<1>4. PICK n \in got[c] + 1 .. Min(S) : I!Push(Len(Events(n)))
  BY SameScan, Zenon DEF I!Receive, I!Min, Min
<1> HIDE DEF S
<1>5. n \in Nat /\ n \in 0 .. Len(Stream[c]) /\ got[c] \in 0 .. n
  BY <1>1, <1>2, <1>3
<1>6. SubSeq(Stream[c], got[c] + 1, n) \in Seq(Nat)
  BY <1>1, <1>5, FirstAndNext
<1>7. scan[c].buf \o SubSeq(Stream[c], got[c] + 1, n) \in Seq(Nat)
  BY <1>2, <1>6, ConcatProperties
<1>8. Events(n) \in Seq(FrameEvent)
  BY <1>2, <1>7, ScanType
<1> HIDE DEF Events
<1>9. Len(Events(n)) \in Nat
  BY <1>8, LenProperties
<1> QED
  BY <1>4, <1>9, PushCounts

\* What is added to the sum of the counters is 1.
LEMMA OneMore ==
    ASSUME NEW e \in Nat, NEW r \in Nat, NEW x \in Nat, NEW e1 \in Nat, NEW r1 \in Nat,
           NEW x1 \in Nat, NEW p \in Nat, e1 + r1 = e + r + p, x1 + p = x + 1
    PROVE  e1 + r1 + x1 = e + r + x + 1
  OBVIOUS

\* A datagram
LEMMA ReceiveCounts ==
    ASSUME I!IngestAssumption, DatagramInv, NEW d \in Datagram, I!UdpReceive(d)
    PROVE  DatagramInv'
<1> DEFINE n == I!Taken(d)
           buffer == I!Filled(d)
<1>1. d \in Seq(Nat) /\ Len(d) \in Nat /\ bufferSize \in Nat
  <2>1. d \in Seq(0 .. Base - 1)
    BY DEF I!IngestAssumption
  <2> QED
    BY <2>1, Bytes DEF I!IngestAssumption
<1>2. n \in Nat /\ n <= Len(d) /\ n <= bufferSize
  <2> DEFINE S == {Len(d), bufferSize}
  <2>1. S \in SUBSET Nat /\ S # {}
    BY <1>1
  <2>2. PICK i \in S : \A j \in S : i <= j
    BY <2>1, LeastNumber
  <2>3. I!Min(S) \in S /\ \A j \in S : I!Min(S) <= j
    BY <2>2 DEF I!Min
  <2> QED
    BY <2>1, <2>3 DEF I!Taken
<1>3. /\ upc = "recv" /\ recvBuffer' = buffer
      /\ IF d = << >>
         THEN UNCHANGED <<last, lastEvent, totalDatagrams, totalErrors, I!counters>>
         ELSE \E event \in I!EventsOf(buffer, n) :
                /\ last' = d /\ lastEvent' = event /\ totalDatagrams' = totalDatagrams + 1
                /\ totalErrors' = totalErrors + I!ErrorsIn(event, n)
                /\ I!Push(IF event = I!Bad THEN 0 ELSE 1)
      /\ UNCHANGED <<I!server, I!accepting, I!clients>>
  BY Zenon DEF I!UdpReceive
<1> HIDE DEF n
<1>4. /\ buffer \in [1 .. bufferSize -> Nat] /\ buffer \in Seq(Nat) /\ Len(buffer) = bufferSize
      /\ \A i \in 1 .. n : buffer[i] = d[i]
  <2>1. \A k \in 1 .. bufferSize : (IF k <= n THEN d[k] ELSE recvBuffer[k]) \in Nat
    BY <1>1, <1>2 DEF DatagramInv, Counted
  <2>2. buffer \in [1 .. bufferSize -> Nat]
    BY <2>1 DEF I!Filled, n
  <2>3. \A i \in 1 .. n : buffer[i] = d[i]
    BY <1>1, <1>2 DEF I!Filled, n
  <2> HIDE DEF buffer
  <2> QED
    BY <1>1, <2>2, <2>3
<1> HIDE DEF buffer
<1>5. CASE d = << >>
  <2>1. /\ UNCHANGED <<last, lastEvent, totalDatagrams, totalErrors, totalEvents, totalDrops,
                       protocol, apc, tpc>>
    BY <1>3, <1>5 DEF I!counters, I!server, I!accepting, I!clients
  <2>2. Counted'
    BY <1>3, <1>4, <2>1 DEF DatagramInv, Counted
  <2>3. I!DatagramsAddUp'
    BY <2>1 DEF DatagramInv, I!DatagramsSound, I!DatagramsAddUp
  <2>4. I!NoStaleBytes'
    BY <2>1 DEF DatagramInv, I!DatagramsSound, I!NoStaleBytes
  <2> QED
    BY <2>2, <2>3, <2>4 DEF DatagramInv, I!DatagramsSound
<1>6. CASE d # << >>
  <2>0. PICK event \in I!EventsOf(buffer, n) :
          /\ last' = d /\ lastEvent' = event /\ totalDatagrams' = totalDatagrams + 1
          /\ totalErrors' = totalErrors + I!ErrorsIn(event, n)
          /\ I!Push(IF event = I!Bad THEN 0 ELSE 1)
    BY <1>3, <1>6
  <2> DEFINE pushed == IF event = I!Bad THEN 0 ELSE 1
             errors == I!ErrorsIn(event, n)
  <2>1. /\ last' = d /\ lastEvent' = event /\ totalDatagrams' = totalDatagrams + 1
        /\ totalErrors' = totalErrors + errors /\ I!Push(pushed)
        /\ UNCHANGED <<protocol, apc, tpc>>
    BY <1>3, <2>0 DEF I!server, I!accepting, I!clients
  <2>2. pushed \in Nat /\ errors \in Nat /\ pushed + errors = 1
    BY DEF I!ErrorsIn
  <2> HIDE DEF pushed, errors
  <2>3. /\ totalDatagrams \in Nat /\ totalEvents \in Nat /\ totalDrops \in Nat
        /\ totalErrors \in Nat
    BY DEF DatagramInv, Counted
  <2>4. /\ totalEvents' \in Nat /\ totalDrops' \in Nat
        /\ totalEvents' + totalDrops' = totalEvents + totalDrops + pushed
    BY <2>1, <2>2, <2>3, PushCounts
  <2>5. Counted'
    BY <1>3, <1>4, <2>1, <2>2, <2>3, <2>4 DEF DatagramInv, Counted
  <2>6. I!DatagramsAddUp'
    <3>1. protocol = "udp" => totalDatagrams = totalEvents + totalDrops + totalErrors
      BY DEF DatagramInv, I!DatagramsSound, I!DatagramsAddUp
    <3>2. totalDatagrams = totalEvents + totalDrops + totalErrors
          => totalDatagrams' = totalEvents' + totalDrops' + totalErrors'
      <4>1. /\ totalDatagrams' = totalDatagrams + 1 /\ totalErrors' = totalErrors + errors
            /\ totalEvents' \in Nat /\ totalDrops' \in Nat
            /\ totalEvents' + totalDrops' = totalEvents + totalDrops + pushed
        BY <2>1, <2>4
      <4>2. /\ totalErrors' + pushed = totalErrors + 1 /\ totalErrors' \in Nat
        BY <2>2, <2>3, <4>1
      <4>3. totalEvents' + totalDrops' + totalErrors'
              = totalEvents + totalDrops + totalErrors + 1
        <5> DEFINE e == totalEvents
                   r == totalDrops
                   x == totalErrors
                   e1 == totalEvents'
                   r1 == totalDrops'
                   x1 == totalErrors'
        <5>1. /\ e \in Nat /\ r \in Nat /\ x \in Nat /\ e1 \in Nat /\ r1 \in Nat
              /\ x1 \in Nat /\ pushed \in Nat
          BY <2>2, <2>3, <4>1, <4>2
        <5>2. e1 + r1 = e + r + pushed /\ x1 + pushed = x + 1
          BY <4>1, <4>2
        <5> HIDE DEF e, r, x, e1, r1, x1
        <5>3. e1 + r1 + x1 = e + r + x + 1
          BY ONLY <5>1, <5>2, OneMore
        <5> QED
          BY <5>3 DEF e, r, x, e1, r1, x1
      <4> QED
        BY <4>1, <4>3
    <3> QED
      BY <2>1, <3>1, <3>2 DEF I!DatagramsAddUp
  <2>7. I!NoStaleBytes'
    <3> SUFFICES ASSUME lastEvent' # I!Bad, ~I!Wraps(I!frameLen(d))
                 PROVE  LET size == HeaderSize + I!frameLen(d)
                        IN  /\ size <= Len(d)
                            /\ event = I!parseFullFrame(SubSeq(d, 1, size))
      BY <2>1 DEF I!NoStaleBytes
    <3>3. /\ \A b : I!frameLen(b) = frameLen(b) /\ I!parseFullFrame(b) = parseFullFrame(b)
      BY DEF I!frameLen, frameLen, I!ReadUintBE, ReadUintBE, I!parseFrameBody, parseFrameBody,
             I!parseFullFrame, parseFullFrame, I!Bad, Bad, I!CRITICAL, CRITICAL
    <3>1. event # Bad /\ ~I!Wraps(frameLen(d))
      BY <2>1, <3>3 DEF I!Bad, Bad
    <3>2. LET size == HeaderSize + frameLen(d)
          IN  size <= Len(d) /\ event = parseFullFrame(SubSeq(d, 1, size))
      BY <1>2, <1>4, <3>1, FrameOfDatagram
    <3> QED
      BY <3>2, <3>3
  <2> QED
    BY <2>5, <2>6, <2>7 DEF DatagramInv, I!DatagramsSound
<1> QED
  BY <1>5, <1>6

\* Every step keeps the invariant.
LEMMA NextDatagramInv ==
    ASSUME I!IngestAssumption, PieceInv, DatagramInv, [I!Next]_(I!vars)
    PROVE  DatagramInv'
<1>1. /\ totalEvents \in Nat /\ totalDrops \in Nat
      /\ protocol = "udp" => apc = "none" /\ \A c \in Conn : tpc[c] = "none"
  BY DEF DatagramInv, Counted
<1>2. CASE I!TcpStart \/ I!UdpStart \/ I!Stop
  <2>1. /\ UNCHANGED <<protocol, recvBuffer, last, lastEvent, totalDatagrams, totalErrors,
                       totalEvents, totalDrops>>
        /\ protocol = "udp" => apc' = apc
        /\ \A c \in Conn : tpc[c] = "none" => tpc'[c] = "none"
    BY <1>2
       DEF I!TcpStart, I!UdpStart, I!Stop, I!StopFlag, I!StopClose, I!StopJoin, I!StopClients,
           I!JoinThreads, I!accepting, I!clients, I!udp, I!counters
  <2> QED
    BY <1>1, <2>1, OthersCountNothing
<1>3. CASE I!AcceptThread \/ I!AcceptError \/ \E c \in Conn : I!Accept(c)
  <2>1. /\ UNCHANGED <<protocol, recvBuffer, last, lastEvent, totalDatagrams, totalErrors,
                       totalEvents, totalDrops>>
        /\ apc # "none"
    BY <1>3
       DEF I!AcceptThread, I!AcceptError, I!AcceptTest, I!AcceptWoken, I!List, I!Cleanup,
           I!Accept, I!server, I!udp, I!counters
  <2> QED
    BY <1>1, <2>1, OthersCountNothing
<1>4. ASSUME NEW c \in Conn, I!Connect(c) \/ I!Hangup(c) PROVE DatagramInv'
  <2>1. UNCHANGED <<protocol, recvBuffer, last, lastEvent, totalDatagrams, totalErrors,
                    totalEvents, totalDrops, apc, tpc>>
    BY <1>4 DEF I!Connect, I!Hangup, I!server, I!accepting, I!udp, I!counters
  <2> QED
    BY <1>1, <2>1, OthersCountNothing
<1>5. ASSUME NEW c \in Conn, I!ClientThread(c) PROVE DatagramInv'
  <2>1. /\ UNCHANGED <<protocol, recvBuffer, last, lastEvent, totalDatagrams, totalErrors>>
        /\ tpc[c] # "none"
    BY <1>5
       DEF I!ClientThread, I!ClientTest, I!Receive, I!Disconnected, I!ClientEnd, I!ClientExit,
           I!server, I!udp
  <2>2. totalEvents' \in Nat /\ totalDrops' \in Nat
    <3>1. CASE I!Receive(c)
      BY <1>1, <3>1, PieceCounts
    <3>2. CASE ~I!Receive(c)
      BY <1>1, <1>5, <3>2
         DEF I!ClientThread, I!ClientTest, I!Disconnected, I!ClientEnd, I!ClientExit,
             I!counters
    <3> QED
      BY <3>1, <3>2
  <2> QED
    BY <1>1, <2>1, <2>2, OthersCountNothing
<1>6. CASE I!ReceiveThread \/ I!UdpInterrupted \/ UNCHANGED I!vars
  <2>1. UNCHANGED <<protocol, recvBuffer, last, lastEvent, totalDatagrams, totalErrors,
                    totalEvents, totalDrops, apc, tpc>>
    BY <1>6
       DEF I!ReceiveThread, I!UdpTest, I!UdpCall, I!UdpInterrupted, I!vars, I!server,
           I!accepting, I!clients, I!udp, I!counters
  <2> QED
    BY <1>1, <2>1, OthersCountNothing
<1>7. ASSUME NEW d \in Datagram, I!UdpReceive(d) PROVE DatagramInv'
  BY <1>7, ReceiveCounts
<1>8. ASSUME NEW d \in Datagram, I!UdpOverrun(d) PROVE DatagramInv'
  <2>1. UNCHANGED <<protocol, recvBuffer, last, lastEvent, totalDatagrams, totalErrors,
                    totalEvents, totalDrops, apc, tpc>>
    BY <1>8 DEF I!UdpOverrun, I!accepting, I!clients, I!counters
  <2> QED
    BY <1>1, <2>1, OthersCountNothing
<1> QED
  BY <1>2, <1>3, <1>4, <1>5, <1>6, <1>7, <1>8 DEF I!Next

\* Each datagram is counted once, as an event, a drop or an error, and an event is
\* made of the bytes of its own datagram, whatever the buffer held before, unless the
\* length it claims is so near to 2^32 that the sum the server tests wraps.
THEOREM DatagramsAreSound ==
    ASSUME I!IngestAssumption
    PROVE  I!Spec => []I!DatagramsSound
<1>1. I!Init => JoinInv /\ PieceInv /\ DatagramInv
  BY InitJoinInv, InitPieceInv, InitDatagramInv
<1>2. /\ JoinInv /\ PieceInv /\ DatagramInv
      /\ [I!Next]_(I!vars)
      => (JoinInv /\ PieceInv /\ DatagramInv)'
  BY NextJoinInv, NextPieceInv, NextDatagramInv
<1>3. DatagramInv => I!DatagramsSound
  BY DEF DatagramInv
<1> QED
  BY <1>1, <1>2, <1>3, PTL DEF I!Spec
=============================================================================
