------------------------------- MODULE Pipelines -------------------------------
(***************************************************************************)
(* Runs of one pipeline, a DAG of jobs: the API that saves the graph and   *)
(* starts runs (features/pipelines/router.py, graph_service.py, backfills) *)
(* and the worker tick that releases and ends their steps (runner.py).     *)
(*                                                                         *)
(* Saving a graph deletes its steps and inserts new ones, so a step is     *)
(* known by the save it comes from: <<v, k>> is step k of saved[v].  The   *)
(* tick runs under the orchestration lock (OrchestrationLock) and commits  *)
(* once, for all running runs; each job execution it enqueues is one of    *)
(* Executions, here only active or ended.                                  *)
(***************************************************************************)
EXTENDS Integers, Sequences, FiniteSets

CONSTANTS
  Job,       \* job_definitions
  Graph,     \* the graphs a user may save: [steps, job, deps], a dep is [up, down, type]
  MaxSaves,  \* bound: graphs saved
  MaxRuns    \* bound: pipeline runs

DependencyType == {"success", "finished", "failed", "always"}

\* What validate_graph lets through: steps, jobs that exist, edges between distinct
\* steps with no duplicate, no cycle.
Valid(g) ==
  /\ g.steps # {} /\ IsFiniteSet(g.steps)
  /\ g.job \in [g.steps -> Job]
  /\ \A d \in g.deps : {d.up, d.down} \subseteq g.steps /\ d.type \in DependencyType
  /\ \A d, e \in g.deps : d.up = e.up /\ d.down = e.down => d = e
  /\ \A S \in SUBSET g.steps \ {{}} : \E k \in S : \A d \in g.deps : d.down = k => d.up \notin S

ASSUME GraphsAssumption == \A g \in Graph : Valid(g)
ASSUME RunsAssumption == MaxSaves \in Nat /\ MaxRuns \in Nat

VARIABLES
  saved,      \* the graphs saved so far; the last one is the pipeline
  activeJobs, \* the jobs with is_active
  request,    \* the POST being served: what it read before it writes (NoRequest: none)
  run,        \* pipeline_executions.status
  version,    \* the save the run's steps come from
  from,       \* the step a backfill restarts the run from (NoStep: the whole pipeline)
  step,       \* pipeline_step_executions.status of each step of the run
  exec        \* the job execution of each step: "none", "active" or how it ended

vars == <<saved, activeJobs, request, run, version, from, step, exec>>
runVars == <<run, version, from, step, exec>>

NoStep == <<0, 0>>
NoRequest == [version |-> 0, from |-> NoStep]
Current == Len(saved)

JobEnded == {"success", "failed", "cancelled", "timeout"}
StepEnded == {"success", "failed", "skipped"}
RunEnded == {"success", "failed", "partial_success"}
StepStatus == {"pending", "running"} \union StepEnded
ExecStatus == {"none", "active"} \union JobEnded

\* The runs started so far.
Runs == 1..Len(run)
\* The steps of the graph a run was started with, and the dependencies they had.
StepsOf(r) == DOMAIN step[r]
DepsOf(r) == saved[version[r]].deps

Empty == [steps |-> {}, job |-> <<>>, deps |-> {}]

\* The restarts a backfill may ask for: of a step that the user was once shown.
Restarts == {NoStep} \union UNION {{v} \X saved[v].steps : v \in 1..Current}

\* Each step of some graph saved has a status.
PerStep(Status) == UNION {[saved[v].steps -> Status] : v \in 1..Current}

TypeOK ==
  /\ saved \in Seq(Graph \union {Empty}) /\ Len(saved) \in 1..(MaxSaves + 1)
  /\ activeJobs \subseteq Job
  /\ \/ request = NoRequest
     \/ request \in [version : 1..Current, from : Restarts] /\ Len(run) < MaxRuns
  /\ Len(run) \in 0..MaxRuns /\ run \in Seq({"running"} \union RunEnded)
  /\ version \in Seq(1..Current) /\ from \in Seq(Restarts)
  /\ step \in Seq(PerStep(StepStatus)) /\ exec \in Seq(PerStep(ExecStatus))
  /\ Len(version) = Len(run) /\ Len(from) = Len(run)
  /\ Len(step) = Len(run) /\ Len(exec) = Len(run)
  /\ \A r \in Runs :
       /\ step[r] \in [saved[version[r]].steps -> StepStatus]
       /\ exec[r] \in [saved[version[r]].steps -> ExecStatus]

\* create_pipeline: a pipeline has no steps until its graph is saved.
Init ==
  /\ saved = <<Empty>>
  /\ activeJobs = Job
  /\ request = NoRequest
  /\ run = <<>> /\ version = <<>> /\ from = <<>>
  /\ step = <<>> /\ exec = <<>>

-----------------------------------------------------------------------------
(* Releasing steps *)

\* _dep_satisfied and _dep_impossible, for an upstream step in status s.
Satisfied(type, s) ==
  /\ s \in StepEnded
  /\ type \in {"success", "failed"} => s = type
Impossible_Never(type, s) == FALSE   \* mutant: blocked steps are not skipped
Impossible(type, s) ==
  /\ s \in StepEnded
  /\ type \in {"success", "failed"} /\ s # type

\* The dependencies and the job the tick finds for step k of save v: none once the
\* graph was saved again.
Upstreams(v, k) == IF v = Current THEN {d \in saved[v].deps : d.down = k} ELSE {}
Runnable_Orphan(v, k) == saved[v].job[k] \in activeJobs   \* mutant: a deleted step still runs
Runnable(v, k) == v = Current /\ saved[v].job[k] \in activeJobs

\* mutant: a failed step is released again
Pass_Failed(v, s) ==
  [k \in DOMAIN s |->
     IF s[k] \notin {"pending", "failed"} THEN s[k]
     ELSE IF \A d \in Upstreams(v, k) : Satisfied(d.type, s[d.up])
          THEN IF Runnable(v, k) THEN "running" ELSE "failed"
     ELSE s[k]]

\* One pass of the loop of _release_ready_steps over the steps in status s.  (The code
\* goes through the steps one by one and sees what it has just written: since a step
\* that ended stays so, the loop reaches the same statuses.)
Pass(v, s) ==
  [k \in DOMAIN s |->
     IF s[k] # "pending" THEN s[k]
     ELSE IF \E d \in Upstreams(v, k) : Impossible(d.type, s[d.up]) THEN "skipped"
     ELSE IF \A d \in Upstreams(v, k) : Satisfied(d.type, s[d.up])
          THEN IF Runnable(v, k) THEN "running" ELSE "failed"
     ELSE "pending"]
\* The loop goes on until nothing changes; each pass that changes something leaves
\* one pending step fewer.
Release(v, s) ==
  LET after[n \in 0..Cardinality(DOMAIN s)] ==
        IF n = 0 THEN s ELSE Pass(v, after[n - 1])
  IN  after[Cardinality(DOMAIN s)]

\* The job executions of a run whose steps go from s to t.
Launch(x, s, t) ==
  [k \in DOMAIN t |-> IF s[k] = "pending" /\ t[k] = "running" THEN "active" ELSE x[k]]

-----------------------------------------------------------------------------
(* The API *)

\* put_graph: validate_graph, then save_graph.
SaveGraph ==
  /\ Len(saved) <= MaxSaves
  /\ \E g \in Graph : saved' = Append(saved, g)
  /\ UNCHANGED <<activeJobs, request, runVars>>

ToggleJob(j) ==
  /\ activeJobs' = IF j \in activeJobs THEN activeJobs \ {j} ELSE activeJobs \union {j}
  /\ UNCHANGED <<saved, request, runVars>>

\* run_pipeline refuses an empty graph; create_backfill takes any, and any step id
\* the user was once shown.
ReadPipeline(restart) ==
  /\ request = NoRequest /\ Len(run) < MaxRuns
  /\ request' = [version |-> Current, from |-> restart]
  /\ UNCHANGED <<saved, activeJobs, runVars>>

RunPipeline == saved[Current].steps # {} /\ ReadPipeline(NoStep)
BackfillPipeline == \E restart \in Restarts : ReadPipeline(restart)

\* _downstream_closure: what can be reached from step k of save v.
Downstream(v, k) ==
  LET after[n \in 0..Cardinality(saved[v].steps)] ==
        IF n = 0 THEN {k}
        ELSE after[n - 1] \union
             {j \in saved[v].steps : \E d \in Upstreams(v, j) : d.up \in after[n - 1]}
  IN  after[Cardinality(saved[v].steps)]

\* The steps that are to run: all of them, or those after the restart step.
Kept_All(v, restart) == saved[v].steps   \* mutant: the restart step is ignored
Kept(v, restart) ==
  IF restart = NoStep THEN saved[v].steps
  ELSE IF restart[1] = v THEN Downstream(v, restart[2]) ELSE {}

\* start_pipeline_execution, and the commit of its caller.
StartRun ==
  /\ request # NoRequest
  /\ LET v == request.version
         s == [k \in saved[v].steps |->
                 IF k \in Kept(v, request.from) THEN "pending" ELSE "success"]
     IN /\ step' = Append(step, Release(v, s))
        /\ exec' = Append(exec, Launch([k \in DOMAIN s |-> "none"], s, Release(v, s)))
        /\ version' = Append(version, v)
        /\ from' = Append(from, request.from)
        /\ run' = Append(run, "running")
  /\ request' = NoRequest
  /\ UNCHANGED <<saved, activeJobs>>

-----------------------------------------------------------------------------
(* The worker *)

\* A job execution ends (module Executions).
JobEnds(r, k) ==
  /\ exec[r][k] = "active"
  /\ \E result \in JobEnded : exec' = [exec EXCEPT ![r][k] = result]
  /\ UNCHANGED <<saved, activeJobs, request, run, version, from, step>>

SomeJobEnds == \E r \in Runs : \E k \in StepsOf(r) : JobEnds(r, k)

\* The executions the tick may find ended: it reads them one by one, so it may miss
\* the ones that end while it does.
Finished ==
  UNION {{<<r, k>> : k \in {j \in StepsOf(r) : exec[r][j] \in JobEnded}} : r \in Runs}

\* _advance_one, first part: finished job executions reflected onto the steps.
\* mutant: a step takes the status of its execution as it is
Reflected_Raw(r, seen) ==
  [k \in StepsOf(r) |->
     IF step[r][k] = "running" /\ <<r, k>> \in seen THEN exec[r][k] ELSE step[r][k]]
Reflected(r, seen) ==
  [k \in StepsOf(r) |->
     IF step[r][k] = "running" /\ <<r, k>> \in seen
     THEN IF exec[r][k] = "success" THEN "success" ELSE "failed"
     ELSE step[r][k]]

\* _advance_one, last part: the run's status, from the statuses of its steps.
\* mutant: a run ends as soon as nothing is pending
Outcome_Early(statuses) ==
  IF "pending" \in statuses THEN "running"
  ELSE IF "failed" \in statuses THEN "failed" ELSE "success"
Outcome(statuses) ==
  IF statuses \intersect {"pending", "running"} # {} THEN "running"
  ELSE IF statuses \subseteq {"success"} THEN "success"
  ELSE IF statuses = {"failed"} THEN "failed"
  ELSE "partial_success"

StatusesOf(s) == {s[k] : k \in DOMAIN s}

\* advance_pipeline_executions, having seen the executions of seen ended.
Advance(seen) ==
  LET next(r) == IF run[r] = "running" THEN Release(version[r], Reflected(r, seen)) ELSE step[r]
  IN /\ step' = [r \in Runs |-> next(r)]
     /\ exec' = [r \in Runs |-> Launch(exec[r], step[r], next(r))]
     /\ run' = [r \in Runs |-> IF run[r] = "running" THEN Outcome(StatusesOf(next(r))) ELSE run[r]]
     /\ UNCHANGED <<saved, activeJobs, request, version, from>>

Tick == Advance(Finished)

-----------------------------------------------------------------------------
Environment ==
  \/ SaveGraph \/ \E j \in Job : ToggleJob(j)
  \/ RunPipeline \/ BackfillPipeline \/ StartRun

Next ==
  \/ Environment
  \/ \E seen \in SUBSET Finished : Advance(seen)
  \/ SomeJobEnds

Spec == Init /\ [][Next]_vars

\* Orchestration recurs (OrchestrationLock), and executions end (Executions).
Fairness == WF_vars(Tick) /\ WF_vars(SomeJobEnds)
FairSpec == Spec /\ Fairness

-----------------------------------------------------------------------------
(* Properties *)

\* The result a dependency of this type asks of the upstream step.
Holds(type, s) == type \in {"success", "failed"} => s = type

\* docs/pipelines-builder.md: "Os steps cujos upstreams tiveram sucesso sao liberados;
\* se um upstream falha, o downstream fica skipped": a job is launched only after every
\* upstream step ended as its dependency asks, and a step is skipped only when one
\* ended otherwise, whatever is saved, disabled or restarted during the run.
StepsFollowDependencies ==
  \A r \in Runs : \A k \in StepsOf(r) :
    /\ exec[r][k] # "none" =>
         \A d \in DepsOf(r) : d.down = k =>
           step[r][d.up] \in StepEnded /\ Holds(d.type, step[r][d.up])
    /\ step[r][k] = "skipped" =>
         \E d \in DepsOf(r) :
           d.down = k /\ step[r][d.up] \in StepEnded /\ ~Holds(d.type, step[r][d.up])

\* A restart launches nothing but the restart step and the steps that come after it
\* in the graph the run was started with.
RestartsOnlyDownstream ==
  \A r \in Runs : from[r] # NoStep => \A k \in StepsOf(r) : exec[r][k] # "none" =>
    /\ from[r][1] = version[r]
    /\ \A S \in SUBSET StepsOf(r) :
         /\ from[r][2] \in S
         /\ \A d \in DepsOf(r) : d.up \in S => d.down \in S
         => k \in S

\* What ended stays as it ended, no step released twice and no run reopened; and a run
\* ends with none of its jobs running, as a success only if all that it ran succeeded.
EndsAreFinal ==
  [][\A r \in Runs :
       /\ run[r] \in RunEnded => run'[r] = run[r]
       /\ run'[r] \in RunEnded => \A k \in StepsOf(r) :
            exec'[r][k] # "active" /\ (run'[r] = "success" => exec'[r][k] \in {"none", "success"})
       /\ \A k \in StepsOf(r) :
            /\ step[r][k] \in StepEnded => step'[r][k] = step[r][k]
            /\ exec[r][k] \in JobEnded => exec'[r][k] = exec[r][k]]_vars

\* Every run that starts ends, though its graph may be replaced and its jobs disabled.
RunsEnd == \A r \in 1..MaxRuns : (r \in Runs /\ run[r] = "running") ~> (r \in Runs /\ run[r] \in RunEnded)
=============================================================================
