------------------------------ MODULE Framing -------------------------------
(***************************************************************************)
(* The frames on the wire, and how the ingest servers cut them out of what *)
(* they receive (frame_parser.cpp, and the loops over the buffer in        *)
(* tcp.cpp and epoll.cpp, which are the same up to what they do with a     *)
(* connection that breaks the limits).                                     *)
(*                                                                         *)
(*   frame:  length | body          body:  priority | topic length (2) |   *)
(*                                         topic | payload                 *)
(*                                                                         *)
(* Numbers are big-endian.  The code has bytes of 256 values and a length  *)
(* of 4 bytes; the instances have smaller ones.                            *)
(***************************************************************************)
EXTENDS Integers, SequencesExt

CONSTANTS
    Base,           \* the values a byte has (256)
    HeaderSize,     \* the bytes of a frame's length (4)
    MaxFrameSize,   \* kMaxBufferSize, kMaxFrameSize (10 MB)
    MaxEmptyFrames  \* 10

ASSUME FramingAssumption == /\ {Base, HeaderSize, MaxFrameSize} \subseteq Nat \ {0}
                            /\ MaxEmptyFrames \in Nat

CRITICAL == 4

\* What a parse that throws gives
Bad == [priority |-> -1, topic |-> << >>, payload |-> << >>]

\* readUint32BE, readUint16BE and the shifts
ReadUintBE(bytes) ==
    LET value[k \in 0 .. Len(bytes)] ==
          IF k = 0 THEN 0 ELSE value[k - 1] * Base + bytes[k]
    IN  value[Len(bytes)]

frameLen(buf) == ReadUintBE(SubSeq(buf, 1, HeaderSize))

parseFrameBody(body) ==
    LET topicLen == ReadUintBE(SubSeq(body, 2, 3))
    IN  IF \/ Len(body) < 3
           \/ body[1] > CRITICAL
           \/ Len(body) < 3 + topicLen
           \/ topicLen = 0
        THEN Bad
        ELSE [priority |-> body[1],
              topic    |-> SubSeq(body, 4, 3 + topicLen),
              payload  |-> SubSeq(body, 4 + topicLen, Len(body))]

parseFullFrame(frame) ==
    IF Len(frame) < HeaderSize \/ frameLen(frame) # Len(frame) - HeaderSize
    THEN Bad
    ELSE parseFrameBody(SubSeq(frame, HeaderSize + 1, Len(frame)))

\* One pass of the loop at the head of the buffer.  s holds the bytes not yet
\* used, the empty frames in a row, the frames found so far, and what the loop
\* does next: "more" (go on), "wait" (for more bytes) or "guard" (a limit broken).
Iteration(s) ==
    LET size == HeaderSize + frameLen(s.buf)
        rest == SubSeq(s.buf, size + 1, Len(s.buf))
        event == parseFullFrame(SubSeq(s.buf, 1, size))
    IN  CASE Len(s.buf) < HeaderSize   -> [s EXCEPT !.do = "wait"]
          [] Len(s.buf) >= HeaderSize /\ frameLen(s.buf) = 0 ->
               IF s.empties + 1 > MaxEmptyFrames
               THEN [s EXCEPT !.empties = @ + 1, !.do = "guard"]
               ELSE [s EXCEPT !.empties = @ + 1, !.buf = rest]
          [] Len(s.buf) >= HeaderSize /\ frameLen(s.buf) > MaxFrameSize ->
               [s EXCEPT !.empties = 0, !.do = "guard"]
          [] Len(s.buf) >= HeaderSize /\ frameLen(s.buf) \in 1 .. MaxFrameSize ->
               IF Len(s.buf) < size THEN [s EXCEPT !.empties = 0, !.do = "wait"]
               ELSE [s EXCEPT !.empties = 0, !.buf = rest,
                              !.events = IF event = Bad THEN @ ELSE Append(@, event)]

LoopState == [buf : Seq(Nat), empties : Nat, do : {"more", "wait", "guard"},
              events : Seq([priority : 0 .. CRITICAL, topic : Seq(Nat), payload : Seq(Nat)])]

Loop[s \in LoopState] == IF s.do = "more" THEN Loop[Iteration(s)] ELSE s

\* The whole loop over a buffer
Scan(buf, empties) ==
    Loop[[buf |-> buf, empties |-> empties, events |-> << >>, do |-> "more"]]
=============================================================================
