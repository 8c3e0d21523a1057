---------------------------- MODULE Observability ----------------------------
(***************************************************************************)
(* The panels of the operation (features/observability, features/          *)
(* dashboard): what runs, what failed today, what is late, beyond its SLA  *)
(* or stalled, read from the rows of the executions and of the controls.   *)
(* Several of them answer the same question, each with a query of its own. *)
(*                                                                         *)
(* Of the executions only what they read: when each step of one happens,   *)
(* and what it leaves in the row and in its control.                       *)
(***************************************************************************)
EXTENDS Integers, FiniteSets, FiniteSetsExt, Functions

CONSTANTS
  Load, Task,            \* controls; jobs: ControlOf[j] is a control or NoLoad
  ControlOf, NoLoad,
  Watched,               \* of each control: type, criticality, expected frequency, SLA, connections
  Conns, NoConn,          \* connections
  DayLength,             \* instants of a day
  HistoryNeeded,         \* successes that make a mean (3 in the code)
  ListLimit,             \* rows that a list of the day shows (200 in the code)
  RecentLimit,           \* executions that are looked at for their duration (500 in the code)
  LastNow, MaxRuns       \* bounds: the clock, executions

\* A day has instants, a list has rows; the job of a load is of one.
ASSUME SeenAssumption ==
  /\ DayLength \in Nat \ {0} /\ MaxRuns \in Nat /\ ListLimit \in Nat \ {0} /\ RecentLimit \in Nat \ {0}
  /\ ControlOf \in [Task -> Load \union {NoLoad}]

VARIABLES
  now,                   \* the clock, in the time zone of the operation
  loads,                 \* ativo, ultima_execucao, status
  runs,                  \* executions, by id
  linked                  \* the connections that were not deleted

seenVars == <<now, loads, runs, linked>>

Never == 0
Unmeasured == -1
Run == 1..MaxRuns
NoSuchRun == [state |-> "unused", task |-> NoLoad, step |-> FALSE, created |-> Never, started |-> Never, ended |-> Never,
              lasted |-> Unmeasured, load |-> NoLoad, source |-> NoConn, target |-> NoConn, rows |-> "none", water |-> "none"]

SeenInit ==
  /\ now = DayLength
  /\ loads = [c \in Load |-> [active |-> TRUE, last |-> Never, status |-> "PENDENTE"]]
  /\ runs = [r \in Run |-> NoSuchRun] /\ linked = Conns

-----------------------------------------------------------------------------
Tick == now < LastNow /\ now' = now + 1 /\ UNCHANGED <<loads, runs, linked>>

\* create_job_execution, alone or for the step of a pipeline.
Queue(j, step) ==
  /\ \E r \in Run :
       /\ runs[r].state = "unused" /\ \A q \in 1..(r - 1) : runs[q].state # "unused"
       /\ runs' = [runs EXCEPT ![r] = [NoSuchRun EXCEPT !.state = "queued", !.task = j, !.step = step, !.created = now]]
  /\ UNCHANGED <<now, loads, linked>>
\* _claim_next, and of _run_one the connections and the control: a run that lacks one ends before it is measured.
Take(r) ==
  /\ runs[r].state = "queued" /\ \A q \in 1..(r - 1) : runs[q].state # "queued"
  /\ LET c == ControlOf[runs[r].task]
         begun == [runs[r] EXCEPT !.state = "running", !.started = now]
     IN \/ c = NoLoad /\ runs' = [runs EXCEPT ![r] = begun] /\ UNCHANGED loads
        \/ /\ c # NoLoad /\ {Watched[c].source, Watched[c].target} \subseteq linked
           /\ runs' = [runs EXCEPT ![r] = [begun EXCEPT !.load = c, !.source = Watched[c].source, !.target = Watched[c].target]]
           /\ loads' = [loads EXCEPT ![c].status = "EM_EXECUCAO"]
        \/ /\ c # NoLoad /\ ~({Watched[c].source, Watched[c].target} \subseteq linked)
           /\ runs' = [runs EXCEPT ![r] = [begun EXCEPT !.state = "failed", !.ended = now]] /\ UNCHANGED loads
  /\ UNCHANGED <<now, linked>>

\* What the job prints of its rows and its watermark, when it prints it.
Summaries == {[rows |-> "none", water |-> "none"], [rows |-> "zero", water |-> "kept"], [rows |-> "some", water |-> "moved"]}
ControlStatus(state) == IF state = "success" THEN "SUCESSO" ELSE "ERRO"
\* The end of _run_one and _update_control_from_execution, which knows no status for a cancelled run.
Finish(r) ==
  /\ runs[r].state = "running"
  /\ \E state \in {"success", "failed", "timeout", "cancelled"}, s \in Summaries :
       /\ state # "success" => s.rows = "none"
       /\ runs' = [runs EXCEPT ![r].state = state, ![r].ended = now, ![r].lasted = now - runs[r].started,
                               ![r].rows = s.rows, ![r].water = s.water]
       /\ loads' = [c \in Load |->
            IF c # runs[r].load THEN loads[c]
            ELSE [loads[c] EXCEPT !.last = now, !.status = IF state = "cancelled" THEN @ ELSE ControlStatus(state)]]
  /\ UNCHANGED <<now, linked>>
\* _reap_stale_executions: nothing is measured, nothing told to the control.
Reap(r) ==
  /\ runs[r].state = "running" /\ now > runs[r].started
  /\ runs' = [runs EXCEPT ![r].state = "failed", ![r].ended = now]
  /\ UNCHANGED <<now, loads, linked>>
\* cancel_execution of one that was not claimed.
Drop(r) ==
  /\ runs[r].state = "queued" /\ runs' = [runs EXCEPT ![r].state = "cancelled", ![r].ended = now]
  /\ UNCHANGED <<now, loads, linked>>

\* activate, deactivate of a control; delete_connection.
Switch(c) == loads' = [loads EXCEPT ![c].active = ~@] /\ UNCHANGED <<now, runs, linked>>
Unlink(k) == k \in linked /\ linked' = linked \ {k} /\ UNCHANGED <<now, loads, runs>>

SeenNext ==
  \/ Tick
  \/ \E j \in Task, step \in BOOLEAN : Queue(j, step)
  \/ \E r \in Run : Take(r) \/ Finish(r) \/ Reap(r) \/ Drop(r)
  \/ \E c \in Load : Switch(c)
  \/ \E k \in Conns : Unlink(k)

SeenSpec == SeenInit /\ [][SeenNext]_seenVars

-----------------------------------------------------------------------------
\* mutant: a run that timed out is no failure
FailedStates_Exits == {"failed"}
FailedStates == {"failed", "timeout"}
Day(t) == t \div DayLength
\* _today_start_utc
Midnight == Day(now) * DayLength
SinceMidnight(r) == runs[r].started >= Midnight
InState(states) == {r \in Run : runs[r].state \in states}
Zero(r) == runs[r].state = "success" /\ runs[r].rows = "zero"

\* A query that takes the newest by their start, so many at most: which of those that began together
\* it leaves out is the database's choice.
Cuts(rows, limit) ==
  {list \in SUBSET rows :
     /\ Cardinality(list) = IF Cardinality(rows) <= limit THEN Cardinality(rows) ELSE limit
     /\ \A r \in list, q \in rows \ list : runs[r].started >= runs[q].started}

\* What began today, runs, failed today, or had no rows today; today, running, failures and zero_records
\* show a cut of each (no execution has a parent).
StartedToday == {r \in Run : SinceMidnight(r)}
FailedToday == {r \in InState(FailedStates) : SinceMidnight(r)}
ZeroToday == {r \in Run : Zero(r) /\ SinceMidnight(r)}
TodayRows == Cuts(StartedToday, ListLimit)
RunningRows == Cuts(InState({"running"}), ListLimit)
FailureRows == Cuts(FailedToday, ListLimit)
ZeroRows == Cuts(ZeroToday, ListLimit)

\* late_loads: by the control, whatever came of its last execution.
Overdue(c, last) == Watched[c].frequency # Never /\ last # Never /\ now > last + Watched[c].frequency
LateLoads == {c \in Load : loads[c].active /\ Overdue(c, loads[c].last)}
\* _last_exec_by_control: the highest id, which may have just begun.
RunsOf(c) == {r \in Run : runs[r].load = c}
LastRun(c) == IF RunsOf(c) = {} THEN Never ELSE Max(RunsOf(c))
\* sla_breaches, watermark_stalled
Beyond(c, r) == Watched[c].sla # Never /\ runs[r].lasted # Unmeasured /\ runs[r].lasted > Watched[c].sla
SlaBreaches == {c \in Load : LastRun(c) # Never /\ Beyond(c, LastRun(c))}
StillAt(r) == runs[r].water \in {"none", "kept"}
StalledLoads == {c \in Load : ~Watched[c].full /\ loads[c].active /\ LastRun(c) # Never /\ StillAt(LastRun(c))}

\* _critical_failures_count, and the numbers of the panel.
CriticalFailures == {r \in FailedToday : runs[r].load # NoLoad /\ Watched[runs[r].load].critical}
Overview ==
  [running_now |-> Cardinality(InState({"running"})),
   queued |-> Cardinality(InState({"queued"})),
   success_today |-> Cardinality({r \in InState({"success"}) : SinceMidnight(r)}),
   failed_today |-> Cardinality({r \in InState({"failed", "timeout"}) : SinceMidnight(r)}),
   zero_records |-> Cardinality({r \in InState({"success"}) : SinceMidnight(r) /\ runs[r].rows = "zero"}),
   late |-> Cardinality(LateLoads), sla |-> Cardinality(SlaBreaches), stalled |-> Cardinality(StalledLoads),
   critical |-> Cardinality(CriticalFailures)]

\* source_target_failures: by role and connection.  A source that is not known has no row, a target that is
\* not known is named by its type; what names a connection that was deleted is left out.
Blamed(role, k) == {r \in FailedToday : (IF role = "source" THEN runs[r].source ELSE runs[r].target) = k}
BlameShown ==
  {b \in {"source", "target"} \X (Conns \union {NoConn}) :
     Blamed(b[1], b[2]) # {} /\ (b[2] \in linked \/ b = <<"target", NoConn>>)}

\* duration_anomalies, against the mean of the successes of the job, when there are enough of them.
Measured(j) == {r \in InState({"success"}) : runs[r].task = j /\ runs[r].lasted # Unmeasured}
SpentBy(j) == MapThenSumSet(LAMBDA r : runs[r].lasted, Measured(j))
RecentRows == Cuts({r \in Run : SinceMidnight(r) /\ runs[r].lasted # Unmeasured}, RecentLimit)
Anomalies(recent) ==
  {r \in recent : LET j == runs[r].task IN
     /\ Cardinality(Measured(j)) >= HistoryNeeded /\ SpentBy(j) > 0
     /\ 2 * runs[r].lasted * Cardinality(Measured(j)) > 3 * SpentBy(j)}

\* control_health: every control, with what was never told to it taken from its last run.
Health(c) ==
  LET r == LastRun(c)
      last == IF loads[c].last # Never THEN loads[c].last ELSE IF r = Never THEN Never ELSE runs[r].started
  IN [status |-> IF r = Never THEN loads[c].status ELSE runs[r].state,
      late |-> Overdue(c, last),
      breached |-> r # Never /\ Beyond(c, r),
      zero |-> r # Never /\ Zero(r),
      stalled |-> ~Watched[c].full /\ r # Never /\ StillAt(r)]
\* sla_report
Reported == {c \in Load : Health(c).late \/ Health(c).breached}

\* history of a job, of a control, or of the steps of a pipeline: the numbers of the window, and by day.
History(entity, id, days) ==
  {r \in Run :
     /\ CASE entity = "job" -> runs[r].task = id [] entity = "control" -> runs[r].load = id
          [] entity = "pipeline" -> runs[r].step
     /\ runs[r].started # Never /\ runs[r].started >= now - days * DayLength}
Series(rows, days) == [d \in Day(now - days * DayLength)..Day(now) |-> {r \in rows : Day(runs[r].started) = d}]

\* The dashboard counts by the time of the request, and the last day is one up to now.
LastDay(states) == {r \in InState(states) : runs[r].created # Never /\ runs[r].created >= now - DayLength}

-----------------------------------------------------------------------------
SeenTypeOK ==
  /\ now \in DayLength..LastNow /\ linked \subseteq Conns
  /\ \A c \in Load : loads[c].active \in BOOLEAN /\ loads[c].last \in 0..LastNow
  /\ \A r \in Run :
       /\ runs[r].state \in {"unused", "queued", "running", "success", "failed", "timeout", "cancelled"}
       /\ runs[r].load \in Load \union {NoLoad} /\ runs[r].lasted \in Unmeasured..LastNow

Full(list) == Cardinality(list) = ListLimit
\* A list has the rows its number counts, until it is full.
Counts(number, lists) == \A list \in lists : Cardinality(list) = number \/ (Full(list) /\ number > ListLimit)
\* The numbers of the panel are those of its lists, and its loads those of the report: the report adds only
\* controls that are switched off, and those whose last run nobody told them of.  What a full list
\* of the day leaves out began no later than what it shows.
PanelIsReport ==
  /\ Counts(Overview.failed_today, FailureRows) /\ Counts(Overview.running_now, RunningRows)
  /\ Counts(Overview.zero_records, ZeroRows)
  /\ LateLoads = {c \in Reported : Health(c).late /\ loads[c].active /\ loads[c].last # Never}
  /\ SlaBreaches = {c \in Reported : Health(c).breached}
  /\ StalledLoads = {c \in Load : Health(c).stalled /\ loads[c].active}
  /\ \A today \in TodayRows, recent \in RecentRows, list \in FailureRows \union ZeroRows :
       \A r \in (list \union Anomalies(recent)) \ today :
         Full(today) /\ \A q \in today : runs[q].started >= runs[r].started
  /\ \A c \in Load, list \in ZeroRows :
       Health(c).zero /\ SinceMidnight(LastRun(c)) => LastRun(c) \in list \/ Full(list)
\* A failure of this day is counted on the panel of the day and in its list, unless that one is full of
\* others no older, and it is blamed on its target unless that connection was deleted; when it began
\* the day before it is on the dashboard, unless it was asked for over a day ago.  The load it was of
\* says so until the next run of the load.
FailuresAreSeen ==
  \A r \in Run : runs[r].state \in {"failed", "timeout"} /\ runs[r].ended >= Midnight =>
    /\ \/ /\ r \in FailedToday
          /\ \A list \in FailureRows :
               r \in list \/ (Full(list) /\ \A q \in list : runs[q].started >= runs[r].started)
          /\ <<"target", runs[r].target>> \in BlameShown \/ runs[r].target \in Conns \ linked
       \/ runs[r].started < Midnight /\ (r \in LastDay(FailedStates) \/ runs[r].created < now - DayLength)
    /\ \/ runs[r].load = NoLoad \/ LastRun(runs[r].load) > r
       \/ Health(runs[r].load).status \in {"failed", "timeout"}
\* Every run of a history is in one of its days.
HistoryAddsUp ==
  \A days \in 1..2, entity \in {"job", "pipeline"}, j \in Task :
    LET rows == History(entity, j, days) IN rows = UNION Range(Series(rows, days))

\* What the panels say of the executions agrees, and none of them misses a failure that another does not
\* tell: the lists and the numbers of the day, the report by load, the failures by connection, the
\* dashboard, the history.
PanelsAgree == PanelIsReport /\ FailuresAreSeen /\ HistoryAddsUp
=============================================================================
