------------------------------ MODULE MCConfig ------------------------------
(***************************************************************************)
(* What runs depend on, side by side: connections, destinations and        *)
(* controls, secrets and variables, what starts a job and its deletion,    *)
(* the tags of jobs, and what the panels say of runs.  They have no state  *)
(* in common, so a behaviour is one of one of them: `part' says which.     *)
(***************************************************************************)
EXTENDS RunConfig, Secrets, JobUse, Tags, Observability, TLC

CONSTANTS k1, k2, k3, e1, e2, c1, c2, v1, v2, s1, j1, j2, o1

VARIABLE part   \* the component whose behaviours these are

\* A database and a bucket, a destination over the database that is a template and names a table, a
\* control that copies from it.
Row(n, t) == [state |-> "there", name |-> n, type |-> t, active |-> TRUE, tested |-> "not_tested", moved |-> FALSE]
Rows ==
  [conns |-> k1 :> Row("n1", "postgres") @@ k2 :> Row("n2", "s3") @@ k3 :> [Row("n1", "mysql") EXCEPT !.state = "unused"],
   dests |-> e1 :> DestAs(k1, "postgres", TRUE, TRUE) @@ e2 :> [DestAs(k2, "s3", FALSE, TRUE) EXCEPT !.state = "unused"],
   controls |-> c1 :> [state |-> "there", source |-> k1, target |-> k2, dest |-> None, bucket |-> TRUE, active |-> TRUE]
             @@ c2 :> [state |-> "unused", source |-> None, target |-> None, dest |-> None, bucket |-> FALSE, active |-> TRUE],
   links |-> {[control |-> c1, dest |-> e1, role |-> "primary", active |-> TRUE]}]
\* Arguments only; a destination; a control over arguments and a destination; selected controls.
Ref(side, n) == [side |-> side, name |-> n]
Declared ==
  {[args |-> <<Ref("source", "n1"), Ref("target", "n2")>>, dest |-> None, control |-> None, selected |-> {}],
   [args |-> <<Ref("target", "n2")>>, dest |-> e1, control |-> None, selected |-> {}],
   [args |-> <<Ref("target", "n1")>>, dest |-> e1, control |-> c1, selected |-> {}],
   [args |-> <<>>, dest |-> None, control |-> c1, selected |-> {c1, c2}]}

\* A variable for every environment and one for this one; a schedule of the job.
Scopes == v1 :> "global" @@ v2 :> "environment"
Scheduled == s1 :> j1
\* A job of a control, which copies within a connection, and one of none.
Loaded == j1 :> o1 @@ j2 :> "none"
Watch == o1 :> [full |-> FALSE, critical |-> TRUE, frequency |-> 1, sla |-> 1, source |-> k1, target |-> k1]

-----------------------------------------------------------------------------
otherVars == <<tagVars, seenVars>>
partVars == <<configVars, secretVars, useVars, otherVars, part>>

AllInit ==
  /\ part \in {"registry", "secrets", "variables", "use", "tags", "panels"}
  /\ ConfigInit /\ SecretsInit /\ UseInit /\ TagsInit /\ SeenInit

AllNext ==
  /\ UNCHANGED part
  /\ \/ part = "registry" /\ ConfigNext /\ UNCHANGED <<secretVars, useVars, otherVars>>
     \/ part = "secrets" /\ (ConnSecrets \/ Rekeyed) /\ UNCHANGED <<configVars, useVars, otherVars>>
     \/ part = "variables" /\ (Variables \/ Rekeyed) /\ UNCHANGED <<configVars, useVars, otherVars>>
     \/ part = "use" /\ UseNext /\ UNCHANGED <<configVars, secretVars, otherVars>>
     \/ part = "tags" /\ TagsNext /\ UNCHANGED <<configVars, secretVars, useVars, seenVars>>
     \/ part = "panels" /\ SeenNext /\ UNCHANGED <<configVars, secretVars, useVars, tagVars>>

ConfigSpec == AllInit /\ [][AllNext]_partVars
=============================================================================
