------------------------------ MODULE MCPipelines ------------------------------
(***************************************************************************)
(* Pipelines and backfills in two sizes, each behaviour one of them: one   *)
(* run of a graph of several steps, which may be replaced by another, and  *)
(* two runs of a single step beside the executions of a backfill of jobs.  *)
(***************************************************************************)
EXTENDS MCBackfill

VARIABLE size

Large ==
  /\ jobExec' = <<>> /\ Len(run') + (IF request' = NoRequest THEN 0 ELSE 1) <= 1
  /\ \A b \in DOMAIN backfill' : backfill'[b].run # 0
  /\ \A v \in DOMAIN saved' : saved'[v] # Single
Small ==
  /\ Len(saved') <= 2 /\ (jobExec' # <<>> => Len(run') <= 1)
  /\ \A v \in DOMAIN saved' : saved'[v] \in {Single, Empty}

SizedInit == BInit /\ size \in {"large", "small"}
SizedNext ==
  /\ UNCHANGED size /\ BNext
  /\ size = "large" => Large
  /\ size = "small" => Small
SizedSpec == SizedInit /\ [][SizedNext]_<<bvars, size>> /\ BFairness
=============================================================================
