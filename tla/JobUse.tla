------------------------------- MODULE JobUse -------------------------------
(***************************************************************************)
(* Jobs and what starts them: requests, schedules, pipelines, backfills    *)
(* and retries; and the deletion of a job, which is refused while any of   *)
(* these is active.  A request reads the rows it depends on and writes     *)
(* later, when others may have changed them; nothing stops a schedule or a *)
(* pipeline from being activated once the job is gone.                     *)
(***************************************************************************)
EXTENDS Naturals, FiniteSets

CONSTANTS
  Actor,           \* requests at the same time, the scheduler's and the worker's among them
  Job, Sched, Pipe,
  JobOf,           \* the job of a schedule
  MaxAsks, MaxOpen \* bounds: requests that read first, and executions of a job at a time

ASSUME UseAssumption == MaxAsks \in Nat /\ MaxOpen \in Nat

VARIABLES
  jobs,            \* is_active, deleted_at, retry_count
  scheds, pipes,   \* the schedules, and the pipelines with their steps
  open, failed,    \* of a job: the queued or running executions, and the failed one not retried
  ask,             \* the request of each actor between its reads and its commit
  asks,
  torn             \* history: the jobs with a request that overlapped their deletion

useVars == <<jobs, scheds, pipes, open, failed, ask, asks, torn>>

NoAsk == [of |-> "nothing"]
How == {"run", "run_now", "slot", "step", "backfill", "retry"}

UseInit ==
  /\ jobs = [j \in Job |-> [active |-> TRUE, deleted |-> FALSE]]
  /\ scheds = [s \in Sched |-> "unused"]
  /\ pipes = [p \in Pipe |-> [state |-> "there", active |-> TRUE, steps |-> {}]]
  /\ open = [j \in Job |-> 0] /\ failed = [j \in Job |-> FALSE]
  /\ ask = [a \in Actor |-> NoAsk] /\ asks = 0 /\ torn = {}

-----------------------------------------------------------------------------
\* _delete_blockers: an execution, an active pipeline with a step of the job, an active schedule.
ScheduledOn(j) == {s \in Sched : JobOf[s] = j /\ scheds[s] = "active"}
PipedIn(j) == {p \in Pipe : pipes[p].state = "there" /\ pipes[p].active /\ j \in pipes[p].steps}
Blocked(j) == open[j] > 0 \/ PipedIn(j) # {} \/ ScheduledOn(j) # {}

\* What a request that starts an execution looks at: that of a person and that of a backfill at
\* deleted_at, and all of them, in create_job_execution, at is_active.
\* mutant: create_job_execution takes any job
Runnable_Any(j) == TRUE
Runnable(j) == jobs[j].active
Starts(how, j) ==
  CASE how = "run" -> ~jobs[j].deleted /\ Runnable(j)
    [] how = "backfill" -> ~jobs[j].deleted /\ Runnable(j)
    [] how = "run_now" -> (\E s \in Sched : JobOf[s] = j /\ scheds[s] \in {"active", "off"}) /\ Runnable(j)
    [] how = "slot" -> ScheduledOn(j) # {} /\ Runnable(j)
    [] how = "step" -> (\E p \in PipedIn(j) : TRUE) /\ Runnable(j)
    [] how = "retry" -> failed[j] /\ Runnable(j)

\* The rows a deletion and a start go by; they overlapped if these changed under one of them.
Seen(j) == <<jobs[j], open[j]>>
Reads(a, of, j, more) ==
  /\ ask[a] = NoAsk /\ asks < MaxAsks /\ asks' = asks + 1
  /\ ask' = [ask EXCEPT ![a] = [of |-> of, job |-> j, seen |-> Seen(j), more |-> more]]
  /\ UNCHANGED <<jobs, scheds, pipes, open, failed, torn>>
Commits(a, of) == ask[a].of = of /\ ask' = [ask EXCEPT ![a] = NoAsk]
Overlapped(a) == Seen(ask[a].job) # ask[a].seen
Torn(a) ==
  torn' = IF Overlapped(a) /\ (ask[a].of = "delete" \/ jobs[ask[a].job].deleted) THEN torn \union {ask[a].job} ELSE torn

AskStart(a, j) == \E how \in How : Starts(how, j) /\ Reads(a, "start", j, how)
Start(a) ==
  LET j == ask[a].job IN
  /\ Commits(a, "start") /\ open[j] < MaxOpen
  /\ open' = [open EXCEPT ![j] = @ + 1]
  /\ failed' = IF ask[a].more = "retry" THEN [failed EXCEPT ![j] = FALSE] ELSE failed
  /\ Torn(a)
  /\ UNCHANGED <<jobs, scheds, pipes, asks>>

\* update_job writes is_active if it differs from what was read; a deleted job is not edited.
AskUpdate(a, j) == \E active \in BOOLEAN : ~jobs[j].deleted /\ Reads(a, "update", j, active)
Update(a) ==
  LET j == ask[a].job IN
  /\ Commits(a, "update")
  /\ jobs' = IF ask[a].more # ask[a].seen[1].active THEN [jobs EXCEPT ![j].active = ask[a].more] ELSE jobs
  /\ Torn(a)
  /\ UNCHANGED <<scheds, pipes, open, failed, asks>>

\* delete_job: the checks, then the archive of the code, then the row, is_active if it was read set.
AskDelete(a, j) == ~jobs[j].deleted /\ ~Blocked(j) /\ Reads(a, "delete", j, "nothing")
Delete(a) ==
  LET j == ask[a].job IN
  /\ Commits(a, "delete")
  /\ jobs' = [jobs EXCEPT ![j] = [active |-> @.active /\ ~ask[a].seen[1].active, deleted |-> TRUE]]
  /\ Torn(a)
  /\ UNCHANGED <<scheds, pipes, open, failed, asks>>
\* The archive failed, or the server went down with the request.
Abandon(a) ==
  /\ ask[a] # NoAsk /\ ask' = [ask EXCEPT ![a] = NoAsk]
  /\ UNCHANGED <<jobs, scheds, pipes, open, failed, asks, torn>>

\* The worker ends an execution; a failed one may be retried once its end is written.
End(j) ==
  /\ open[j] > 0
  /\ open' = [open EXCEPT ![j] = @ - 1]
  /\ \E failure \in BOOLEAN : failed' = [failed EXCEPT ![j] = @ \/ failure]
  /\ UNCHANGED <<jobs, scheds, pipes, ask, asks, torn>>

-----------------------------------------------------------------------------
\* create_schedule, update_schedule, enable, disable, delete: of a job that has a row, deleted or not.
SetSchedule(s) ==
  \E was, becomes \in {"unused", "active", "off", "gone"} :
    /\ scheds[s] = was /\ <<was, becomes>> \in
         {<<"unused", "active">>, <<"active", "off">>, <<"off", "active">>, <<"active", "gone">>, <<"off", "gone">>}
    /\ scheds' = [scheds EXCEPT ![s] = becomes]
    /\ UNCHANGED <<jobs, pipes, open, failed, ask, asks, torn>>
\* update_pipeline, delete_pipeline
SwitchPipe(p) ==
  /\ pipes[p].state = "there"
  /\ pipes' = [pipes EXCEPT ![p].active = ~@]
  /\ UNCHANGED <<jobs, scheds, open, failed, ask, asks, torn>>
DeletePipe(p) ==
  /\ pipes[p].state = "there"
  /\ pipes' = [pipes EXCEPT ![p].state = "gone"]
  /\ UNCHANGED <<jobs, scheds, open, failed, ask, asks, torn>>
\* put_graph: at least a step, and the job of each has a row; an inactive one is a warning.
PutGraph(p) ==
  \E steps \in SUBSET Job :
    /\ pipes[p].state = "there" /\ steps # {} /\ steps # pipes[p].steps
    /\ pipes' = [pipes EXCEPT ![p].steps = steps]
    /\ UNCHANGED <<jobs, scheds, open, failed, ask, asks, torn>>

UseNext ==
  \/ \E a \in Actor : Start(a) \/ Update(a) \/ Delete(a) \/ Abandon(a)
  \/ \E a \in Actor, j \in Job : AskStart(a, j) \/ AskUpdate(a, j) \/ AskDelete(a, j)
  \/ \E j \in Job : End(j)
  \/ \E s \in Sched : SetSchedule(s)
  \/ \E p \in Pipe : SwitchPipe(p) \/ DeletePipe(p) \/ PutGraph(p)

UseSpec == UseInit /\ [][UseNext]_useVars

-----------------------------------------------------------------------------
UseTypeOK ==
  /\ jobs \in [Job -> [active : BOOLEAN, deleted : BOOLEAN]]
  /\ scheds \in [Sched -> {"unused", "active", "off", "gone"}]
  /\ pipes \in [Pipe -> [state : {"there", "gone"}, active : BOOLEAN, steps : SUBSET Job]]
  /\ open \in [Job -> 0..MaxOpen] /\ asks \in 0..MaxAsks /\ torn \subseteq Job

\* A deleted job stays idle: no execution of it is queued or running, and none of the schedules and
\* pipelines that may be activated, edited or created around it later, nor a retry, starts one; unless
\* a request that starts or edits the job overlapped its deletion.
DeletedIsIdle == \A j \in Job \ torn : jobs[j].deleted => ~jobs[j].active /\ open[j] = 0
=============================================================================
