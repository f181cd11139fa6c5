---------------------------- MODULE MCMpscQueue ----------------------------
(* An instance of MpscQueue for TLC.  At most Capacity - 1 + |Producer| items *)
(* are queued (OvershootBounded), next to the dummy and a node being deleted, *)
(* so Capacity + 1 + |Producer| nodes are never exhausted and some freed      *)
(* node is always handed out again.                                           *)
EXTENDS MpscQueue

ASSUME EnoughNodes == Cardinality(Node) >= Capacity + 1 + Cardinality(Producer)
============================================================================
