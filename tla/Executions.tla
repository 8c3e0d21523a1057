------------------------------ MODULE Executions ------------------------------
(***************************************************************************)
(* The life of the rows of the executions table: the API that inserts and  *)
(* cancels them (services/execution_service.py), the worker replicas that  *)
(* claim, run and finish them and the reaper that fails the rows whose     *)
(* lease ran out (scripts/run_worker.py).                                  *)
(*                                                                         *)
(* One action is one database transaction, or one step of a worker process *)
(* between two transactions.  PostgreSQL runs at READ COMMITTED and every  *)
(* UPDATE is by primary key with no version guard, so what a transaction   *)
(* wrote to a row since a session read it is overwritten without notice:   *)
(* the handlers that read in one transaction and write in another are two  *)
(* actions here.                                                           *)
(***************************************************************************)
EXTENDS Integers, FiniteSets

CONSTANTS
  Worker,       \* the worker replicas
  SlowWorker,   \* those that may stall past the lease TTL, or fail to reach the
                \* database in a heartbeat
  Cancellable,  \* the executions a user may cancel
  Endless,      \* the executions whose subprocess may never end by itself
  RetryCount,   \* job.retry_count of the job (one job stands for all)
  MaxRuns,      \* bound: runs asked for through the API
  MaxExec,      \* bound: rows of the table
  MaxCrashes    \* bound: crashes of worker processes

Exec == 1..MaxExec   \* primary keys, given out in increasing order

ASSUME WorkersAssumption == SlowWorker \subseteq Worker
ASSUME BoundsAssumption ==
  /\ RetryCount \in Nat /\ MaxRuns \in Nat /\ MaxExec \in Nat /\ MaxCrashes \in Nat
  /\ Cancellable \subseteq Nat /\ Endless \subseteq Nat

VARIABLES
  \* the table
  status,           \* executions.status; "absent" before the row is inserted
  attempt,          \* executions.attempt
  cancelRequested,  \* executions.cancel_requested
  lease,            \* executions.lease_expires_at: "none" (NULL), "live" or "expired"
  last,             \* the last primary key given out
  jobActive,        \* job_definitions.is_active
  \* the worker processes
  pc, held,         \* where the main loop is, and the execution it works on (or 0)
  outcome,          \* what _run_subprocess returned
  stale,            \* the rows this worker's reaper selected and has not handled yet
  \* the cancel request being served: the row and the status it was read with
  apiExec, apiSeen,
  \* history and bounds
  retryOf,          \* the execution whose failure this row retries (0: none)
  runs, crashes

rowVars == <<status, attempt, cancelRequested, lease, last, retryOf>>
workerVars == <<pc, held, outcome, stale>>
apiVars == <<apiExec, apiSeen>>
vars == <<rowVars, workerVars, apiVars, jobActive, runs, crashes>>

Ended == {"success", "failed", "cancelled", "timeout"}
Status == {"absent", "queued", "running"} \union Ended
Executing == {"prep", "run", "fin"}          \* _run_one, up to its last status write
Reaping == {"reap", "reaped"}                \* holding the orchestration lock
WorkerPc == {"poll", "claim", "post", "orch", "down"} \union Executing \union Reaping

\* Where a worker has an execution in hand.
Holding == {"claim", "post", "reaped"} \union Executing

\* The process of worker w is between the claim of e and its final status write.
Works(w, e) == pc[w] \in Executing /\ held[w] = e
\* SELECT ... FOR UPDATE holds the lock on row e until the claim commits.
Locked(e) == \E w \in Worker : pc[w] = "claim" /\ held[w] = e

RowsOK ==
  /\ status \in [Exec -> Status]
  /\ attempt \in [Exec -> Nat]
  /\ cancelRequested \in [Exec -> BOOLEAN]
  /\ lease \in [Exec -> {"none", "live", "expired"}]
  /\ last \in 0..MaxExec
  /\ retryOf \in [Exec -> 0..last]
  /\ \A e \in Exec : status[e] = "absent" <=> e > last

WorkersOK ==
  /\ pc \in [Worker -> WorkerPc]
  /\ held \in [Worker -> 0..last]
  /\ outcome \in [Worker -> Ended \union {"none"}]
  /\ stale \in [Worker -> SUBSET (1..last)]
  /\ \A w \in Worker : pc[w] \in Holding <=> held[w] # 0
  /\ \A w \in Worker : pc[w] = "fin" => outcome[w] \in Ended

RequestOK ==
  /\ apiExec \in 0..last
  /\ apiSeen \in {"none", "queued", "running"}
  /\ (apiExec = 0) <=> (apiSeen = "none")

\* The type invariant, with what ties the worker processes and the request in
\* flight to rows that exist.
TypeOK ==
  /\ RowsOK /\ WorkersOK /\ RequestOK
  /\ jobActive \in BOOLEAN
  /\ runs \in 0..MaxRuns
  /\ crashes \in 0..MaxCrashes

Init ==
  /\ status = [e \in Exec |-> "absent"]
  /\ attempt = [e \in Exec |-> 0]
  /\ cancelRequested = [e \in Exec |-> FALSE]
  /\ lease = [e \in Exec |-> "none"]
  /\ last = 0
  /\ jobActive = TRUE
  /\ pc = [w \in Worker |-> "poll"]
  /\ held = [w \in Worker |-> 0]
  /\ outcome = [w \in Worker |-> "none"]
  /\ stale = [w \in Worker |-> {}]
  /\ apiExec = 0 /\ apiSeen = "none"
  /\ retryOf = [e \in Exec |-> 0]
  /\ runs = 0 /\ crashes = 0

-----------------------------------------------------------------------------
(* The API *)

\* create_job_execution: insert a queued row.
CreateExecution(number, parent) ==
  /\ jobActive
  /\ last < MaxExec
  /\ last' = last + 1
  /\ status' = [status EXCEPT ![last + 1] = "queued"]
  /\ attempt' = [attempt EXCEPT ![last + 1] = number]
  /\ retryOf' = [retryOf EXCEPT ![last + 1] = parent]
  /\ UNCHANGED <<cancelRequested, lease>>

\* enqueue_job_execution: a run asked for by a user, a schedule, a pipeline step, a backfill.
EnqueueRun ==
  /\ runs < MaxRuns
  /\ runs' = runs + 1
  /\ CreateExecution(1, 0)
  /\ UNCHANGED <<workerVars, apiVars, jobActive, crashes>>

\* The job is enabled or disabled.
ToggleJob ==
  /\ jobActive' = ~jobActive
  /\ UNCHANGED <<rowVars, workerVars, apiVars, runs, crashes>>

\* cancel_execution reads the row, without locking it ...
CancelRead(e) ==
  /\ apiExec = 0
  /\ e \in Cancellable
  /\ status[e] \in {"queued", "running"}
  /\ apiExec' = e /\ apiSeen' = status[e]
  /\ UNCHANGED <<rowVars, workerVars, jobActive, runs, crashes>>

\* mutant: the UPDATE does not wait for the claim that holds the row
CancelCommit_Unlocked ==
  /\ apiExec # 0
  /\ \/ /\ apiSeen = "queued"
        /\ status' = [status EXCEPT ![apiExec] = "cancelled"]
        /\ UNCHANGED cancelRequested
     \/ /\ apiSeen = "running"
        /\ cancelRequested' = [cancelRequested EXCEPT ![apiExec] = TRUE]
        /\ UNCHANGED status
  /\ apiExec' = 0 /\ apiSeen' = "none"
  /\ UNCHANGED <<attempt, lease, last, retryOf, workerVars, jobActive, runs, crashes>>

\* ... and commits what that status called for; the UPDATE waits for a claim that
\* holds the row.
CancelCommit ==
  /\ apiExec # 0
  /\ ~Locked(apiExec)
  /\ \/ /\ apiSeen = "queued"
        /\ status' = [status EXCEPT ![apiExec] = "cancelled"]
        /\ UNCHANGED cancelRequested
     \/ /\ apiSeen = "running"
        /\ cancelRequested' = [cancelRequested EXCEPT ![apiExec] = TRUE]
        /\ UNCHANGED status
  /\ apiExec' = 0 /\ apiSeen' = "none"
  /\ UNCHANGED <<attempt, lease, last, retryOf, workerVars, jobActive, runs, crashes>>

-----------------------------------------------------------------------------
(* The worker's main loop *)

Goto(w, label) == pc' = [pc EXCEPT ![w] = label]
Drop_Forgotten(w) == UNCHANGED held   \* mutant: the worker keeps its execution
Drop(w) == held' = [held EXCEPT ![w] = 0]
Claimable_Unlocked == {e \in Exec : status[e] = "queued"}   \* mutant: no FOR UPDATE SKIP LOCKED
Claimable == {e \in Exec : status[e] = "queued" /\ ~Locked(e)}

\* _claim_next: SELECT the oldest queued row FOR UPDATE SKIP LOCKED ...
ClaimLock(w) ==
  /\ pc[w] = "poll"
  /\ \E e \in Claimable :
       /\ \A f \in Claimable : e <= f
       /\ held' = [held EXCEPT ![w] = e]
  /\ Goto(w, "claim")
  /\ UNCHANGED <<rowVars, outcome, stale, apiVars, jobActive, runs, crashes>>

\* mutant: the claim leaves lease_expires_at NULL
ClaimCommit_NoLease(w) ==
  /\ pc[w] = "claim"
  /\ status' = [status EXCEPT ![held[w]] = "running"]
  /\ Goto(w, "prep")
  /\ UNCHANGED <<attempt, cancelRequested, lease, last, retryOf, held, outcome, stale,
                 apiVars, jobActive, runs, crashes>>

\* ... and commit it as running, with a fresh lease.
ClaimCommit(w) ==
  /\ pc[w] = "claim"
  /\ status' = [status EXCEPT ![held[w]] = "running"]
  /\ lease' = [lease EXCEPT ![held[w]] = "live"]
  /\ Goto(w, "prep")
  /\ UNCHANGED <<attempt, cancelRequested, last, retryOf, held, outcome, stale,
                 apiVars, jobActive, runs, crashes>>

NothingQueued(w) ==
  /\ pc[w] = "poll" /\ Claimable = {}
  /\ Goto(w, "orch")
  /\ UNCHANGED <<rowVars, held, outcome, stale, apiVars, jobActive, runs, crashes>>

\* _run_one returns early when the script is missing or a connection does not
\* resolve: the row is failed, its lease stays, and nothing else follows.
PrepareFails(w) ==
  /\ pc[w] = "prep"
  /\ status' = [status EXCEPT ![held[w]] = "failed"]
  /\ Goto(w, "orch") /\ Drop(w)
  /\ UNCHANGED <<attempt, cancelRequested, lease, last, retryOf, outcome, stale,
                 apiVars, jobActive, runs, crashes>>

\* The connections resolved: the subprocess is started.
Prepared(w) ==
  /\ pc[w] = "prep"
  /\ Goto(w, "run")
  /\ UNCHANGED <<rowVars, held, outcome, stale, apiVars, jobActive, runs, crashes>>

\* The subprocess ended by itself with result r.
Returns(w, r) ==
  /\ pc[w] = "run"
  /\ outcome' = [outcome EXCEPT ![w] = r]
  /\ Goto(w, "fin")
  /\ UNCHANGED <<held, stale, apiVars, jobActive, runs, crashes>>

ProcessExits(w) ==
  /\ \E r \in {"success", "failed"} : Returns(w, r)
  /\ UNCHANGED rowVars

\* _touch_lease writes the row whatever its status; a database error is swallowed.
TouchLease(w) ==
  /\ \/ lease' = [lease EXCEPT ![held[w]] = "live"]
     \/ w \in SlowWorker /\ UNCHANGED lease
  /\ UNCHANGED <<status, attempt, cancelRequested, last, retryOf>>

\* A heartbeat of _run_subprocess: touch the lease, then the timeout, then cancellation.
HeartbeatTimeout(w) == Returns(w, "timeout") /\ TouchLease(w)
HeartbeatCancel_Unreached(w) == FALSE   \* mutant: the loop continues before the cancel check
HeartbeatCancel(w) ==
  /\ Returns(w, "cancelled")
  /\ cancelRequested[held[w]]
  /\ TouchLease(w)
Heartbeat(w) ==
  /\ pc[w] = "run"
  /\ ~cancelRequested[held[w]] \/ w \in SlowWorker   \* the read may fail as well
  /\ TouchLease(w)
  /\ UNCHANGED <<workerVars, apiVars, jobActive, runs, crashes>>

\* The end of _run_one: status by the outcome, lease cleared, whatever the row holds now.
Finish(w) ==
  /\ pc[w] = "fin"
  /\ status' = [status EXCEPT ![held[w]] = outcome[w]]
  /\ lease' = [lease EXCEPT ![held[w]] = "none"]
  /\ outcome' = [outcome EXCEPT ![w] = "none"]
  /\ Goto(w, "post")
  /\ UNCHANGED <<attempt, cancelRequested, last, retryOf, held, stale,
                 apiVars, jobActive, runs, crashes>>

\* enqueue_retry, as called by _maybe_retry: the status is read again from the row.
\* mutant: a timeout is retried too
RetryApplies_Timeout(e) ==
  status[e] \in {"failed", "timeout"} /\ jobActive /\ attempt[e] <= RetryCount
RetryApplies(e) == status[e] = "failed" /\ jobActive /\ attempt[e] <= RetryCount
MaybeRetry(e) ==
  \/ RetryApplies(e) /\ CreateExecution(attempt[e] + 1, e)
  \/ ~RetryApplies(e) /\ UNCHANGED rowVars

\* The tail of _run_one.
AfterRun(w) ==
  /\ pc[w] = "post"
  /\ MaybeRetry(held[w])
  /\ Goto(w, "orch") /\ Drop(w)
  /\ UNCHANGED <<outcome, stale, apiVars, jobActive, runs, crashes>>

-----------------------------------------------------------------------------
(* The reaper, run by one worker at a time under the orchestration lock *)

\* mutant: the comparison of lease_expires_at with the clock is dropped
Expired_AnyLease == {e \in Exec : status[e] = "running" /\ lease[e] # "none"}
Expired == {e \in Exec : status[e] = "running" /\ lease[e] = "expired"}
LockFree_Ignored == TRUE   \* mutant: no advisory lock around the orchestration
LockFree == \A w \in Worker : pc[w] \notin Reaping

\* _reap_stale_executions reads the stale rows in one query ...
ReapSelect(w) ==
  /\ pc[w] = "orch"
  /\ LockFree /\ Expired # {}
  /\ stale' = [stale EXCEPT ![w] = Expired]
  /\ Goto(w, "reap")
  /\ UNCHANGED <<rowVars, held, outcome, apiVars, jobActive, runs, crashes>>

\* Nothing to reap, or the lock is not obtained: another worker has it, or an idle
\* connection of one kept it (see OrchestrationLock).
OrchestrateNothing(w) ==
  /\ pc[w] = "orch"
  /\ Goto(w, "poll")
  /\ UNCHANGED <<rowVars, held, outcome, stale, apiVars, jobActive, runs, crashes>>

\* ... then fails them one commit at a time ...
ReapFail(w) ==
  /\ pc[w] = "reap"
  /\ \E e \in stale[w] :
       /\ status' = [status EXCEPT ![e] = "failed"]
       /\ lease' = [lease EXCEPT ![e] = "none"]
       /\ held' = [held EXCEPT ![w] = e]
       /\ stale' = [stale EXCEPT ![w] = @ \ {e}]
  /\ Goto(w, "reaped")
  /\ UNCHANGED <<attempt, cancelRequested, last, retryOf, outcome,
                 apiVars, jobActive, runs, crashes>>

\* ... and retries each before the next.
ReapRetry(w) ==
  /\ pc[w] = "reaped"
  /\ MaybeRetry(held[w])
  /\ Goto(w, IF stale[w] = {} THEN "poll" ELSE "reap") /\ Drop(w)
  /\ UNCHANGED <<outcome, stale, apiVars, jobActive, runs, crashes>>

-----------------------------------------------------------------------------
(* Time and failures *)

\* The lease TTL passes: for a row nobody works on any more, or one whose worker stalls.
LeaseExpires(e) ==
  /\ status[e] = "running" /\ lease[e] = "live"
  /\ \A w \in Worker : Works(w, e) => w \in SlowWorker
  /\ lease' = [lease EXCEPT ![e] = "expired"]
  /\ UNCHANGED <<status, attempt, cancelRequested, last, retryOf,
                 workerVars, apiVars, jobActive, runs, crashes>>

\* A worker process dies: its open transaction and its session locks go with it.
Crash(w) ==
  /\ pc[w] # "down" /\ crashes < MaxCrashes
  /\ crashes' = crashes + 1
  /\ Goto(w, "down") /\ Drop(w)
  /\ outcome' = [outcome EXCEPT ![w] = "none"]
  /\ stale' = [stale EXCEPT ![w] = {}]
  /\ UNCHANGED <<rowVars, apiVars, jobActive, runs>>

Restart(w) ==
  /\ pc[w] = "down"
  /\ Goto(w, "poll")
  /\ UNCHANGED <<rowVars, held, outcome, stale, apiVars, jobActive, runs, crashes>>

\* What a worker does by itself, apart from the wait for its subprocess.
Step(w) ==
  \/ ClaimLock(w) \/ ClaimCommit(w) \/ NothingQueued(w)
  \/ PrepareFails(w) \/ Prepared(w) \/ Finish(w) \/ AfterRun(w)
  \/ ReapSelect(w) \/ OrchestrateNothing(w) \/ ReapFail(w) \/ ReapRetry(w)
  \/ Restart(w)

Api == EnqueueRun \/ ToggleJob \/ (\E e \in Exec : CancelRead(e)) \/ CancelCommit

Next ==
  \/ Api
  \/ \E w \in Worker :
       Step(w) \/ ProcessExits(w) \/ HeartbeatTimeout(w) \/ HeartbeatCancel(w)
       \/ Heartbeat(w) \/ Crash(w)
  \/ \E e \in Exec : LeaseExpires(e)

Spec == Init /\ [][Next]_vars

\* The loop of a live worker goes on, a dead worker is restarted, a cancel
\* request that was seen stops the subprocess, some worker keeps orchestrating
\* (OrchestrationRecurs of OrchestrationLock), time passes, and a subprocess ends
\* unless it hangs.
Fairness ==
  /\ \A w \in Worker :
       /\ WF_vars(Step(w)) /\ WF_vars(HeartbeatCancel(w))
       /\ WF_vars(held[w] \notin Endless /\ ProcessExits(w))
  /\ SF_vars(\E w \in Worker : ReapSelect(w))
  /\ \A e \in Exec : WF_vars(LeaseExpires(e))
FairSpec == Spec /\ Fairness

-----------------------------------------------------------------------------
(* Properties *)

\* Where a worker has, or is about to take, an execution of the queue.
Owning == {"claim", "post"} \union Executing

\* No execution is worked on by two workers, and what a worker works on was not
\* put back in the queue: each row is claimed once (SKIP LOCKED, _claim_next).
ClaimedOnce ==
  \A w \in Worker : pc[w] \in {"post"} \union Executing =>
    /\ status[held[w]] # "queued"
    /\ \A v \in Worker \ {w} : pc[v] \in Owning => held[v] # held[w]

\* What keeps it so: a locked row is queued and a row in a worker's hands is not,
\* no row is in the hands of two workers, and the reaper never holds a queued row.
ClaimInv ==
  /\ \A w \in Worker : pc[w] = "claim" => status[held[w]] = "queued"
  /\ \A w \in Worker : pc[w] \in {"post"} \union Executing => status[held[w]] # "queued"
  /\ \A v, w \in Worker : pc[v] \in Owning /\ pc[w] \in Owning /\ held[v] = held[w] => v = w
  /\ \A w \in Worker : \A e \in stale[w] : status[e] # "queued"

\* A running row always carries a lease, so a dead worker's row is within the
\* reach of the reaper, whose query skips rows with a NULL lease.
RunningIsRecoverable ==
  \A e \in Exec : status[e] = "running" => lease[e] # "none"

Retries(e) == {r \in 1..last : retryOf[r] = e}

\* However long workers stall, an execution is retried at most twice: once by the
\* worker that ran it (AfterRun) and once by a reaper that took that worker for dead.
\* With retry_count this bounds what a stall can start.
RetriedTwiceAtMost == \A e \in 1..last : Cardinality(Retries(e)) <= 2

\* An execution that ended is never queued or running again, whatever request, reaper
\* or stalled worker writes over its status: a pipeline step and a backfill that saw the
\* end need not look at it again.
EndedStaysEnded == [][\A e \in Exec : status[e] \in Ended => status'[e] \in Ended]_vars

\* A run asked for once is executed by at most one worker at a time along its
\* retries, and no more often than retry_count allows: an execution is retried at
\* most once, by the worker that ran it or by the reaper, after its row ended and
\* with nothing running it.  (Unless a worker stalls.)
RetryAfterEnd ==
  \A r \in 1..last : retryOf[r] # 0 =>
    /\ status[retryOf[r]] \in Ended
    /\ \A w \in Worker : ~Works(w, retryOf[r])
    /\ \A s \in 1..last : retryOf[s] = retryOf[r] => s = r
    /\ attempt[r] = attempt[retryOf[r]] + 1 /\ attempt[r] <= RetryCount + 1

\* What the API and the worker promise (run_worker.py: "the API contract (queued ->
\* running -> success/failed)").  (Unless a worker stalls.)
Contract == INSTANCE RunContract
ImplementsContract == Contract!Spec

\* cancel_execution of a queued row: "cancel immediately so the worker never claims it".
CancelledNeverRuns ==
  \A e \in Exec : status[e] = "cancelled" => \A w \in Worker : ~Works(w, e)

\* Every execution in the queue or running ends, through crashes of the workers and
\* beside one whose subprocess hangs; that one ends too once a cancel request was accepted.
RunsEnd ==
  \A e \in Exec :
    (e \notin Endless /\ status[e] \in {"queued", "running"}) \/ cancelRequested[e]
      ~> status[e] \in Ended

\* enqueue_retry: "Enqueue a retry of a failed JOB execution if attempts remain".
FailedIsRetried ==
  \A e \in Exec : RetryApplies(e) ~> ~RetryApplies(e) \/ \E r \in Exec : retryOf[r] = e

=============================================================================
