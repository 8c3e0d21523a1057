----------------------------- MODULE MCServices -----------------------------
(***************************************************************************)
(* What the orchestrating worker and the scheduler do around executions,   *)
(* side by side: the orchestration lock, schedules and alerts.  They have  *)
(* no state in common, so a behaviour is one of one of them: `part' says   *)
(* which.                                                                  *)
(***************************************************************************)
EXTENDS OrchestrationLock, Scheduler, Alerts, TLC

CONSTANTS w1, w2, p1, p2, s1, s2, s3, a1, a2

VARIABLE part   \* the service whose behaviours these are

Severity == "warned" :> 1

-----------------------------------------------------------------------------
services == <<schedVars, alertVars>>
allVars == <<vars, services, part>>

ServicesInit ==
  /\ part \in {"lock", "scheduler", "alerts"}
  /\ Init /\ SchedInit /\ AlertInit
  /\ part # "scheduler" => \A s \in Given : schedule[s].active

ServicesNext ==
  /\ UNCHANGED part
  /\ \/ part = "lock" /\ Next /\ UNCHANGED services
     \/ part = "scheduler" /\ SchedNext /\ UNCHANGED <<vars, alertVars>>
     \/ part = "alerts" /\ AlertNext /\ UNCHANGED <<vars, schedVars>>

\* The fairness of each service, of its own steps.
LockFairness ==
  \A w \in Worker :
    /\ WF_vars(part = "lock" /\ Step(w)) /\ WF_vars(part = "lock" /\ JobCommits(w))
    /\ w \notin Hung => WF_vars(part = "lock" /\ JobDone(w))
    /\ \A c \in Conn : SF_vars(part = "lock" /\ Recycle(w, c))

ServicesSpec ==
  ServicesInit /\ [][ServicesNext]_allVars /\ LockFairness /\ SchedFairness /\ AlertFairness

-----------------------------------------------------------------------------
\* Shared work goes on being done, though a worker whose subprocess hangs may have the lock on an
\* idle connection (_run_orchestration).
OrchestrationGoesOn == part = "lock" => OrchestrationRecurs
=============================================================================
