-------------------------- MODULE MCOrchestrationLock --------------------------
(* Instances of OrchestrationLock for TLC. *)
EXTENDS OrchestrationLock, TLC

CONSTANTS w1, w2, w3

Interchangeable == Permutations(Worker)
=============================================================================
