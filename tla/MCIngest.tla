------------------------------ MODULE MCIngest ------------------------------
(* An instance of Ingest for TLC: bytes of six values, lengths of two bytes.  *)
(* The first peer sends a frame, one with a bad priority and the length of    *)
(* one too large; the second one an empty frame, a good one and two empty     *)
(* ones, one too many in a row.                                               *)
EXTENDS Ingest

CONSTANTS c1, c2

ASSUME LengthAssumption == LengthSpace = Base ^ HeaderSize

Streams == (c1 :> <<0, 4, 1, 0, 1, 2, 0, 3, 5, 0, 1, 2, 0>>)
        @@ (c2 :> <<0, 0, 0, 4, 0, 0, 1, 3, 0, 0, 0, 0>>)

\* A frame; the frame and a byte more; a frame whose last byte is missing; a
\* length and nothing else; an empty frame; a frame longer than the buffer; an
\* empty datagram; a topic longer than the frame; the greatest length there is.
Datagrams == {<<0, 5, 4, 0, 1, 2, 3>>, <<0, 4, 1, 0, 1, 2, 3>>, <<0, 5, 4, 0, 1, 2>>,
              <<0, 5>>, <<0, 0, 0, 0, 0, 0>>, <<1, 0, 2, 0, 1, 2, 3, 4, 5>>, << >>,
              <<0, 5, 4, 0, 3, 2, 3>>, <<5, 5, 4, 0, 1, 2, 3>>}
=============================================================================
