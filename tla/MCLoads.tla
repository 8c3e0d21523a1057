------------------------------ MODULE MCLoads -------------------------------
(***************************************************************************)
(* What a load leaves behind and what its job needs, side by side: the     *)
(* watermarks, the grades and events, the outbox that delivers them, the   *)
(* catalog, the code of the jobs, libraries and images.  They have no      *)
(* state in common, so a behaviour is one of one of them: `part' says      *)
(* which.                                                                  *)
(***************************************************************************)
EXTENDS Outbox, Ingestion, Quality, LakeCatalog, JobCode, WorkQueues, TLC

CONSTANTS l1, c1, c2, c3, d1, d2, pip1

VARIABLE part   \* the component whose behaviours these are

\* A table with three states of its rows and two with two.
Few == [c \in Control |-> IF c = c1 THEN 2 ELSE 1]
\* A load that is right, one whose table cannot be looked at, one that failed every check of an
\* incremental load, one of a full load.
Printed(table, full, read, written, ok, advanced, count, keys, found) ==
  [table |-> table, full |-> full, read |-> read, written |-> written, ok |-> ok, advanced |-> advanced,
   count |-> count, keys |-> keys, found |-> found, partition |-> "p1"]
Good == Printed("t1", TRUE, 1, 1, TRUE, FALSE, "off", "unique", "readable")
Unseen == Printed("t2", FALSE, 0, 0, TRUE, FALSE, "unreachable", "unique", "unlisted")
Wrong == Printed("t1", TRUE, 1, 0, TRUE, FALSE, "differ", "duplicated", "empty")
Partial == Printed("t2", FALSE, 2, 1, FALSE, TRUE, "same", "unique", "not s3")
Reports == {<<>>, <<Good, Wrong>>, <<Wrong, Partial>>, <<Unseen>>, <<Partial, Wrong>>}
Controls == {[full |-> FALSE, important |-> TRUE]}
\* Two spellings of a name with one slug.
Names == [j \in Job |-> <<"a", j>>]

-----------------------------------------------------------------------------
loadVars == <<ingestVars, gradedVars, catalogVars, codeVars, queueVars>>
allVars == <<vars, loadVars, part>>

LoadsInit ==
  /\ part \in {"outbox", "ingestion", "quality", "catalog", "code", "queues"}
  /\ Init /\ IngestInit /\ GradeInit /\ CatalogInit /\ CodeInit /\ QueuesInit

LoadsNext ==
  /\ UNCHANGED part
  /\ \/ part = "outbox" /\ Next /\ UNCHANGED loadVars
     \/ part = "ingestion" /\ IngestNext /\ UNCHANGED <<vars, gradedVars, catalogVars, codeVars, queueVars>>
     \/ part = "quality" /\ GradeNext /\ UNCHANGED <<vars, ingestVars, catalogVars, codeVars, queueVars>>
     \/ part = "catalog" /\ CatalogNext /\ UNCHANGED <<vars, ingestVars, gradedVars, codeVars, queueVars>>
     \/ part = "code" /\ CodeNext /\ UNCHANGED <<vars, ingestVars, gradedVars, catalogVars, queueVars>>
     \/ part = "queues" /\ QueuesNext /\ UNCHANGED <<vars, ingestVars, gradedVars, catalogVars, codeVars>>

LoadsSpec == LoadsInit /\ [][LoadsNext]_allVars /\ Fairness /\ QueuesFairness

-----------------------------------------------------------------------------
\* The state of every component has its type.
TypesOK == TypeOK /\ IngestTypeOK /\ GradeTypeOK /\ CatalogTypeOK /\ CodeTypeOK /\ QueuesTypeOK
=============================================================================
