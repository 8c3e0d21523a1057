-------------------------------- MODULE Backfill --------------------------------
(***************************************************************************)
(* Reprocessing requests (features/backfill/service.py) over Pipelines: a  *)
(* backfill starts a pipeline run, or one execution per job of a table or  *)
(* a group of tables of the ingestion control, and a worker tick gives it  *)
(* the final status.  The tick runs under the orchestration lock, after    *)
(* the tick of the pipelines and in a transaction of its own.              *)
(***************************************************************************)
EXTENDS Pipelines

CONSTANT MaxBackfills   \* bound: backfills asked for

ASSUME BackfillsAssumption == MaxBackfills \in Nat /\ IsFiniteSet(Job)

VARIABLES
  asked,    \* the request being served is a backfill
  backfill, \* backfill_runs: its status, and its pipeline run (0: none) or executions
  jobExec   \* the status of the executions that backfills of jobs started

bvars == <<vars, asked, backfill, jobExec>>

Backfills == 1..Len(backfill)
BackfillEnded == {"success", "failed", "partial"}

BackfillsOK ==
  /\ TypeOK
  /\ asked \in BOOLEAN
  /\ backfill \in Seq([status : {"running"} \union BackfillEnded,
                       run : 0..Len(run), execs : SUBSET (1..Len(jobExec))])
  /\ Len(backfill) + (IF asked THEN 1 ELSE 0) \in 0..MaxBackfills
  /\ jobExec \in Seq({"active"} \union JobEnded)

BInit == Init /\ asked = FALSE /\ backfill = <<>> /\ jobExec = <<>>

-----------------------------------------------------------------------------
\* Nothing to run (only a watermark was reset) means that it is already done.
Requested(r, execs) ==
  backfill' = Append(backfill,
    [status |-> IF r = 0 /\ execs = {} THEN "success" ELSE "running", run |-> r, execs |-> execs])

\* create_backfill of a job, a table or a group: one execution for each of the jobs,
\* or an error, and nothing committed, when one of them is inactive.
CreateOfJobs ==
  /\ Len(backfill) + (IF asked THEN 1 ELSE 0) < MaxBackfills
  /\ \E jobs \in SUBSET activeJobs :
       LET fresh == Len(jobExec) + 1 .. Len(jobExec) + Cardinality(jobs)
       IN /\ jobExec' = jobExec \o [i \in 1..Cardinality(jobs) |-> "active"]
          /\ Requested(0, fresh)
  /\ UNCHANGED <<vars, asked>>

\* create_backfill of a pipeline, and run_pipeline: what they read ...
Read ==
  \/ RunPipeline /\ asked' = FALSE
  \/ BackfillPipeline /\ Len(backfill) < MaxBackfills /\ asked' = TRUE

\* ... and what they commit.
Start ==
  /\ StartRun
  /\ \/ asked /\ Requested(Len(run) + 1, {})
     \/ ~asked /\ UNCHANGED backfill
  /\ asked' = FALSE
  /\ UNCHANGED jobExec

\* An execution of a backfill ends.
ExecutionEnds(i) ==
  /\ jobExec[i] = "active"
  /\ \E result \in JobEnded : jobExec' = [jobExec EXCEPT ![i] = result]
  /\ UNCHANGED <<vars, asked, backfill>>

\* What the tick makes of the executions of a backfill, by their statuses.
\* mutant: a cancelled or timed out execution is not a failure
RolledUpJobs_FailedOnly(results) ==
  IF "active" \in results THEN "running"
  ELSE IF "failed" \notin results THEN "success"
  ELSE IF "success" \in results THEN "partial" ELSE "failed"
RolledUpJobs(results) ==
  IF "active" \in results THEN "running"
  ELSE IF results = {"success"} THEN "success"
  ELSE IF "success" \in results THEN "partial" ELSE "failed"

\* And of its pipeline run: the status the code looks for besides these is "partial".
\* mutant: the run's status is taken as it is
RolledUpRun_Raw(result) == result
RolledUpRun(result) == IF result \in {"success", "failed"} THEN result ELSE "running"

\* mutant: a backfill with executions waits for a pipeline run
RolledUp_RunOnly(b) ==
  IF backfill[b].run # 0 THEN RolledUpRun(run[backfill[b].run]) ELSE backfill[b].status
RolledUp(b) ==
  IF backfill[b].run # 0 THEN RolledUpRun(run[backfill[b].run])
  ELSE RolledUpJobs({jobExec[i] : i \in backfill[b].execs})

\* advance_backfills, for those it finds over.
Open == {b \in Backfills : backfill[b].status = "running"}
RollUp(due) ==
  /\ backfill' = [b \in Backfills |->
       IF b \in due THEN [backfill[b] EXCEPT !.status = RolledUp(b)] ELSE backfill[b]]
  /\ UNCHANGED <<vars, asked, jobExec>>

BNext ==
  \/ CreateOfJobs
  \/ Start
  \/ Read /\ UNCHANGED <<backfill, jobExec>>
  \/ \E i \in 1..Len(jobExec) : ExecutionEnds(i)
  \/ \E due \in SUBSET Open : RollUp(due)
  \/ /\ \/ SaveGraph
        \/ \E j \in Job : ToggleJob(j)
        \/ \E seen \in SUBSET Finished : Advance(seen)
        \/ SomeJobEnds
     /\ UNCHANGED <<asked, backfill, jobExec>>

BSpec == BInit /\ [][BNext]_bvars

\* Orchestration recurs, and executions end.
BFairness ==
  /\ WF_bvars(RollUp(Open))
  /\ WF_bvars(Tick /\ UNCHANGED <<asked, backfill, jobExec>>)
  /\ WF_bvars(\E i \in 1..Len(jobExec) : ExecutionEnds(i))
  /\ WF_bvars(SomeJobEnds /\ UNCHANGED <<asked, backfill, jobExec>>)
BFairSpec == BSpec /\ BFairness

-----------------------------------------------------------------------------
(* Properties *)

\* The work of a backfill, as it stands.
WorkOf(b) ==
  IF backfill[b].run # 0
  THEN {exec[backfill[b].run][k] : k \in StepsOf(backfill[b].run)} \ {"none"}
  ELSE {jobExec[i] : i \in backfill[b].execs}

\* A backfill ends only when everything it started has ended, a success has no
\* execution that did not succeed, and a failed backfill of jobs none that did.
BackfillEndsWithItsWork ==
  \A b \in Backfills : backfill[b].status # "running" =>
    /\ "active" \notin WorkOf(b)
    /\ backfill[b].status = "success" => WorkOf(b) \subseteq {"success"}
    /\ backfill[b].status = "failed" /\ backfill[b].run = 0 => "success" \notin WorkOf(b)

\* A backfill of jobs, and one of a pipeline whose run succeeds or fails altogether,
\* gets its final status.
BackfillsEnd ==
  \A b \in 1..MaxBackfills :
    (/\ b \in Backfills /\ backfill[b].status = "running"
     /\ backfill[b].run # 0 => run[backfill[b].run] \in {"success", "failed"})
    ~> (b \in Backfills /\ backfill[b].status \in BackfillEnded)

\* advance_backfills: "Roll up backfill status once all spawned executions (or the
\* pipeline run) finish".
RunsAreRolledUp ==
  \A b \in 1..MaxBackfills :
    (b \in Backfills /\ backfill[b].run # 0 /\ run[backfill[b].run] \in RunEnded)
    ~> (b \in Backfills /\ backfill[b].status \in BackfillEnded)

=============================================================================
