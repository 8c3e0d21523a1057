----------------------------- MODULE MCExecutions -----------------------------
(* Instances of Executions for TLC. *)
EXTENDS Executions, TLC

CONSTANTS w1, w2

\* Interchangeable workers, for runs of safety properties where both or none is slow.
Interchangeable == Permutations(Worker)
=============================================================================
