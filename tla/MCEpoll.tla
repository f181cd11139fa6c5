------------------------------- MODULE MCEpoll ------------------------------
(* An instance of Epoll for TLC: bytes of six values, lengths of one byte,    *)
(* and one worker for all the connections.  One peer sends a frame, again and *)
(* again; another, which may have the same descriptor, two empty frames, one  *)
(* too many, and a byte; the third one only connects and hangs up.            *)
EXTENDS Epoll

CONSTANTS c1, c2, c3

Streams == (c1 :> <<4, 1, 0, 1, 2>>) @@ (c2 :> <<0, 0, 4>>) @@ (c3 :> << >>)
Cuts == (c1 :> {5}) @@ (c2 :> {3}) @@ (c3 :> {})
=============================================================================
