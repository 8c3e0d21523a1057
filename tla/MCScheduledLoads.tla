-------------------------- MODULE MCScheduledLoads ---------------------------
(***************************************************************************)
(* From the slot that is due to the rows that are loaded: schedules, the   *)
(* image the workers run, and controlled loads, side by side.  They have   *)
(* no state in common, so a behaviour is one of one of them: `part' says   *)
(* which.                                                                  *)
(***************************************************************************)
EXTENDS Scheduler, Runtime, Ingestion, TLC

CONSTANTS p1, p2, c1, c2, c3

VARIABLE part   \* the component whose behaviours these are

\* Two tables with two rows each, one for each job, and one in the group of the first that is empty.
Few == [c \in Control |-> IF c = c2 THEN 0 ELSE 2]
\* Replicas have no names of their own.
Interchangeable == Permutations(Replica)

-----------------------------------------------------------------------------
partVars == <<schedVars, runtimeVars, ingestVars, part>>

ScheduledInit ==
  /\ part \in {"schedules", "image", "loads"}
  /\ SchedInit /\ RuntimeInit /\ IngestInit
  /\ part # "schedules" => \A s \in Given : schedule[s].active

ScheduledNext ==
  /\ UNCHANGED part
  /\ \/ part = "schedules" /\ SchedNext /\ UNCHANGED <<runtimeVars, ingestVars>>
     \/ part = "image" /\ RuntimeNext /\ UNCHANGED <<schedVars, ingestVars>>
     \/ part = "loads" /\ IngestNext /\ UNCHANGED <<schedVars, runtimeVars>>

ScheduledSpec == ScheduledInit /\ [][ScheduledNext]_partVars
=============================================================================
