------------------------------ MODULE Scheduler ------------------------------
(***************************************************************************)
(* The schedules of a job: the scheduler replicas that select a due row    *)
(* and fire it (scripts/run_scheduler.py), and the requests that create,   *)
(* change and delete the rows (features/schedules).                        *)
(*                                                                         *)
(* A fire is one transaction that holds the row (FOR UPDATE SKIP LOCKED).  *)
(* A request, and the second session of a fire that raised, reads the row  *)
(* in one step and writes, in a later one, the columns whose value it      *)
(* changed: nothing tells it that the row moved.                           *)
(***************************************************************************)
EXTENDS Integers, FiniteSets, Sequences, FiniteSetsExt

CONSTANTS
  Replica,       \* the scheduler processes
  Schedule,      \* the schedules; one job owns them all
  Given,         \* those created before the first instant
  Periods,       \* the cron expressions, each by the distance of its slots
  MaxActiveRuns, \* job.max_active_runs (0: no limit)
  MaxClock,      \* bound: instants of the clock
  MaxRequests,   \* bound: requests served
  MaxFires,      \* bound: executions created
  MaxFaults      \* bound: fires that raise, replicas that stop

ASSUME SchedulerAssumption ==
  /\ Periods \subseteq Nat \ {0}
  /\ {MaxActiveRuns, MaxClock, MaxRequests, MaxFires, MaxFaults} \subseteq Nat /\ MaxClock > 0
  /\ IsFiniteSet(Replica) /\ Replica \intersect Nat = {}

VARIABLES
  schedule,   \* job_schedules: a row, NoRow before it is inserted, Dropped after it is deleted
  slotRun,    \* schedule_runs of planned instants: <<schedule, scheduled_for, status>>
  started,    \* the executions: the schedule and slot that asked, whether still active
  jobOn,      \* job_definitions.is_active
  clock,
  fire,       \* what each replica is doing
  request,    \* the rows read to be changed: by a request, numbered, or by a replica
  tangled,    \* history: schedules written over, the row having moved since it was read
  served, faults

schedVars == <<schedule, slotRun, started, jobOn, clock, fire, request, tangled, served, faults>>

Null == 0       \* next_run_at, end_at, start_at: instants begin at 1
\* `used': the primary key was given out, which happens once.
NoRow == [active |-> FALSE, period |-> 0, start |-> Null, end |-> Null, next |-> Null,
          gone |-> TRUE, used |-> FALSE]
Row(on, period) == [NoRow EXCEPT !.active = on, !.period = period, !.gone = FALSE, !.used = TRUE]
Dropped == [NoRow EXCEPT !.used = TRUE]

\* mutant: the slot after an instant may be the instant itself
Slot_Inclusive(period, base) == ((base - 1) \div period + 1) * period
\* period 0 is schedule_type "manual", or a missing or invalid cron_expression.
Slot(period, base) == (base \div period + 1) * period
ComputeNextRun(row, now) == Slot(row.period, IF row.start > now THEN row.start ELSE now)

ApplyNextRun(row, now) ==
  IF ~row.active \/ row.period = 0 THEN [row EXCEPT !.next = Null]
  ELSE LET next == ComputeNextRun(row, now)
       IN IF row.end # Null /\ next > row.end
          THEN [row EXCEPT !.next = Null, !.active = FALSE]
          ELSE [row EXCEPT !.next = next]

Idle == [step |-> "idle"]
Busy(p) == fire[p].step # "idle"
HeldRow(s) == \E p \in Replica : fire[p].step = "fire" /\ fire[p].sched = s
\* mutant: the active executions are not counted
ActiveRuns_None == 0
ActiveRuns == Quantify(DOMAIN started, LAMBDA e : started[e].on)
Due(s) == schedule[s].active /\ schedule[s].next # Null /\ schedule[s].next <= clock

SchedInit ==
  /\ \E on \in BOOLEAN, period \in Periods :
       schedule = [s \in Schedule |->
         IF s \in Given THEN ApplyNextRun(Row(on, period), 1) ELSE NoRow]
  /\ slotRun = {} /\ started = <<>> /\ tangled = {}
  /\ jobOn = TRUE
  /\ clock = 1 /\ served = 0 /\ faults = 0
  /\ fire = [p \in Replica |-> Idle]
  /\ request = {}

\* What a write of row s does to those who read it before.
Moved(s) == request' = {IF r.sched = s THEN [r EXCEPT !.raced = TRUE] ELSE r : r \in request}

\* _fire_one up to the count of active executions: the oldest due row nobody holds.
Select(p) ==
  /\ ~Busy(p)
  /\ \E s \in Schedule :
       /\ Due(s) /\ ~HeldRow(s)
       /\ \A t \in Schedule : Due(t) /\ ~HeldRow(t) => schedule[s].next <= schedule[t].next
       /\ IF schedule[s].end # Null /\ schedule[s].next > schedule[s].end
          THEN /\ schedule' = [schedule EXCEPT ![s].active = FALSE, ![s].next = Null]
               /\ Moved(s)
               /\ UNCHANGED fire
          ELSE /\ fire' = [fire EXCEPT ![p] =
                    [step |-> "fire", sched |-> s, slot |-> schedule[s].next, now |-> clock,
                     status |-> IF ~jobOn THEN "failed"
                                ELSE IF MaxActiveRuns > 0 /\ ActiveRuns >= MaxActiveRuns
                                     THEN "skipped" ELSE "triggered"]]
               /\ UNCHANGED <<schedule, request>>
  /\ UNCHANGED <<slotRun, started, jobOn, clock, tangled, served, faults>>

\* mutant: no unique constraint
SlotTaken_Never(s, slot) == FALSE
\* uq_ingest_schedule_runs_slot
SlotTaken(s, slot) == \E run \in slotRun : run[1] = s /\ run[2] = slot

\* ... and its commit: the run, the execution and the next slot, or the rollback
\* of a slot that is recorded already.
Commit(p) ==
  /\ fire[p].step = "fire"
  /\ fire' = [fire EXCEPT ![p] = Idle]
  /\ LET f == fire[p]
     IN IF SlotTaken(f.sched, f.slot)
        THEN UNCHANGED <<schedule, slotRun, started, request>>
        ELSE /\ slotRun' = slotRun \union {<<f.sched, f.slot, f.status>>}
             /\ started' = IF f.status # "triggered" THEN started
                           ELSE Append(started, [sched |-> f.sched, slot |-> f.slot, on |-> TRUE])
             /\ schedule' = [schedule EXCEPT ![f.sched] = ApplyNextRun(@, f.now)]
             /\ Moved(f.sched)
  /\ UNCHANGED <<jobOn, clock, tangled, served, faults>>

\* Any other exception: rollback, and a second session that moves the row on.
Raise(p) ==
  /\ fire[p].step = "fire" /\ faults < MaxFaults
  /\ faults' = faults + 1
  /\ fire' = [fire EXCEPT ![p].step = "advance"]
  /\ UNCHANGED <<schedule, slotRun, started, jobOn, clock, request, tangled, served>>

Asked(s, row, by) ==
  [sched |-> s, old |-> schedule[s], new |-> ApplyNextRun(row, clock), raced |-> FALSE, by |-> by]

\* It reads the row, held or not (get), and computes the next run; Write commits. A row that
\* is gone is nothing to move.
Advance(p) ==
  /\ fire[p].step = "advance"
  /\ LET s == fire[p].sched
     IN IF schedule[s].gone THEN fire' = [fire EXCEPT ![p] = Idle] /\ UNCHANGED request
        ELSE /\ fire' = [fire EXCEPT ![p].step = "advancing"]
             /\ request' = request \union {Asked(s, schedule[s], p)}
  /\ UNCHANGED <<schedule, slotRun, started, jobOn, clock, tangled, served, faults>>

\* A replica stops: its transaction rolls back.
StopReplica(p) ==
  /\ Busy(p) /\ faults < MaxFaults
  /\ faults' = faults + 1
  /\ fire' = [fire EXCEPT ![p] = Idle]
  /\ request' = {r \in request : r.by # p}
  /\ UNCHANGED <<schedule, slotRun, started, jobOn, clock, tangled, served>>

\* create_schedule
Create(s) ==
  /\ ~schedule[s].used /\ served < MaxRequests
  /\ \E on \in BOOLEAN, period \in Periods \union {0} :
       schedule' = [schedule EXCEPT ![s] = ApplyNextRun(Row(on, period), clock)]
  /\ served' = served + 1
  /\ UNCHANGED <<slotRun, started, jobOn, clock, fire, request, tangled, faults>>

Changed(row) ==
  {[row EXCEPT !.active = TRUE], [row EXCEPT !.active = FALSE], [row EXCEPT !.start = clock + 1]}
    \union {[row EXCEPT !.end = end] : end \in {Null, clock}}
    \union {[row EXCEPT !.period = period] : period \in Periods \union {0}}

\* update_schedule, enable_schedule, disable_schedule: read the row, set the fields,
\* compute next_run_at ...
Read(s) ==
  /\ ~schedule[s].gone /\ served < MaxRequests
  /\ served' = served + 1
  /\ \E row \in Changed(schedule[s]) : request' = request \union {Asked(s, row, served)}
  /\ UNCHANGED <<schedule, slotRun, started, jobOn, clock, fire, tangled, faults>>

\* ... and flush the columns whose value differs from the one read. A row deleted
\* meanwhile is an error, and nothing is written. A replica that wrote polls again.
Merged(row, old, new) ==
  [f \in DOMAIN row |-> IF new[f] # old[f] THEN new[f] ELSE row[f]]

Write(r) ==
  /\ ~HeldRow(r.sched)
  /\ IF schedule[r.sched].gone
     THEN request' = request \ {r} /\ UNCHANGED <<schedule, tangled>>
     ELSE /\ schedule' = [schedule EXCEPT ![r.sched] = Merged(@, r.old, r.new)]
          /\ tangled' = IF r.raced THEN tangled \union {r.sched} ELSE tangled
          /\ request' = {IF q.sched = r.sched THEN [q EXCEPT !.raced = TRUE] ELSE q :
                           q \in request \ {r}}
  /\ fire' = [p \in Replica |-> IF p = r.by THEN Idle ELSE fire[p]]
  /\ UNCHANGED <<slotRun, started, jobOn, clock, served, faults>>

\* delete_schedule cascades to its runs; the job's own deletion does the same.
Delete(s) ==
  /\ ~schedule[s].gone /\ ~HeldRow(s) /\ served < MaxRequests
  /\ served' = served + 1
  /\ schedule' = [schedule EXCEPT ![s] = Dropped]
  /\ slotRun' = {run \in slotRun : run[1] # s}
  /\ UNCHANGED <<started, jobOn, clock, fire, request, tangled, faults>>

\* run_now: no count of active executions; its run is recorded at the instant itself,
\* which is no slot.
RunNow(s) ==
  /\ ~schedule[s].gone /\ jobOn /\ served < MaxRequests /\ Len(started) < MaxFires
  /\ served' = served + 1
  /\ started' = Append(started, [sched |-> s, slot |-> Null, on |-> TRUE])
  /\ UNCHANGED <<schedule, slotRun, jobOn, clock, fire, request, tangled, faults>>

\* activate_job, deactivate_job
SwitchJob ==
  /\ served < MaxRequests /\ served' = served + 1
  /\ jobOn' = ~jobOn
  /\ UNCHANGED <<schedule, slotRun, started, clock, fire, request, tangled, faults>>

\* The worker ends an execution (see Executions).
ExecutionEnds(e) ==
  /\ started[e].on
  /\ started' = [started EXCEPT ![e].on = FALSE]
  /\ UNCHANGED <<schedule, slotRun, jobOn, clock, fire, request, tangled, served, faults>>

Tick ==
  /\ clock < MaxClock /\ clock' = clock + 1
  /\ UNCHANGED <<schedule, slotRun, started, jobOn, fire, request, tangled, served, faults>>

FireStep(p) == Select(p) \/ Commit(p) \/ Advance(p) \/ \E r \in request : r.by = p /\ Write(r)

SchedNext ==
  \/ \E p \in Replica : FireStep(p) \/ Raise(p) \/ StopReplica(p)
  \/ \E s \in Schedule : Create(s) \/ Read(s) \/ Delete(s) \/ RunNow(s)
  \/ \E r \in request : Write(r)
  \/ SwitchJob \/ Tick
  \/ \E e \in DOMAIN started : ExecutionEnds(e)

\* Every replica polls for ever (main's loop).
SchedFairness == \A p \in Replica : WF_schedVars(FireStep(p))
SchedSpec == SchedInit /\ [][SchedNext]_schedVars /\ SchedFairness

-----------------------------------------------------------------------------
Rows == [active : BOOLEAN, period : Periods \union {0}, start : Nat, end : Nat, next : Nat,
         gone : {FALSE}, used : {TRUE}]
Fires == [step : {"fire", "advance", "advancing"}, sched : Schedule, slot : 1..MaxClock, now : 1..MaxClock,
          status : {"failed", "skipped", "triggered"}]
Runs == [sched : Schedule, slot : 0..MaxClock, on : BOOLEAN]
Requests == [sched : Schedule, old : Rows, new : Rows, raced : BOOLEAN, by : Nat \union Replica]

\* The type invariant: rows, fires and requests are well formed, a fire and a request are of a
\* schedule that was created, and two replicas do not hold one row.
SchedTypeOK ==
  /\ schedule \in [Schedule -> Rows \union {NoRow, Dropped}]
  /\ fire \in [Replica -> Fires \union {Idle}]
  /\ \A p, q \in Replica :
       (p # q /\ fire[p].step = "fire" /\ fire[q].step = "fire") => fire[p].sched # fire[q].sched
  /\ \A p \in Replica : fire[p].step = "fire" => ~schedule[fire[p].sched].gone
  /\ started \in Seq(Runs)
  /\ request \subseteq Requests
  /\ clock \in 1..MaxClock /\ served \in Nat

\* A planned instant of a schedule starts at most one execution, however many replicas
\* fire it and however requests move its next run.
FiresOncePerSlot ==
  \A d, e \in DOMAIN started :
    (d # e /\ started[d].slot # Null) =>
       <<started[d].sched, started[d].slot>> # <<started[e].sched, started[e].slot>>

\* The count of active executions is read before the insert: overlap is limited to
\* one extra execution per concurrent replica.
OverlapBounded ==
  MaxActiveRuns > 0 =>
    Quantify(DOMAIN started, LAMBDA e : started[e].on /\ started[e].slot # Null)
      <= MaxActiveRuns + Cardinality(Replica) - 1

\* A due slot is fired, skipped, failed or given up: every schedule goes on, unless a row was
\* written over after it had moved, by a request or by the second session of a failed fire. One
\* such row may hold up the others, being the oldest due.
DueIsSettled == \A s \in Schedule : Due(s) ~> (~Due(s) \/ tangled # {})

\* The docstring of the scheduler: it fires the due slot once and moves on to the next future
\* slot, with no request that interferes.  It fails: the second session of a failed fire may move
\* the row back.
MovesOn == \A s \in Schedule : Due(s) ~> ~Due(s)
=============================================================================
