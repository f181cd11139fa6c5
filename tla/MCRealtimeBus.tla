--------------------------- MODULE MCRealtimeBus ---------------------------
(* Instances of RealtimeBus for TLC: a ring of four slots, overflowed several *)
(* times over by the events the Dispatcher takes.                             *)
EXTENDS RealtimeBus
============================================================================
