-------------------------- MODULE MCEventPipeline --------------------------
(* An instance of EventPipeline for TLC: one kind of event for each way       *)
(* through route(), and queues small enough to overflow.                      *)
EXTENDS EventPipeline

\* One the table raises to CRITICAL, one that pressure downgrades, one the table
\* raises to MEDIUM by default, and one that goes to the BATCH queue.
AllKinds == {<<LOW, CRITICAL>>, <<HIGH, NotInTable>>, <<LOW, NotInTable>>,
             <<BATCH, BATCH>>}
============================================================================
