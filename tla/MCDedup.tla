------------------------------ MODULE MCDedup ------------------------------
(* Instances of Dedup for TLC.  Two threads and as many entries as there are  *)
(* ids plus one for each running insert(), so that new Entry always succeeds. *)
EXTENDS Dedup, TLC

ASSUME EnoughEntries == Cardinality(Entry) >= Cardinality(Id) + Cardinality(Thread)

Symmetry == Permutations(Entry) \cup Permutations(Id) \cup Permutations(Thread)
============================================================================
