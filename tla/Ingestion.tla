------------------------------ MODULE Ingestion ------------------------------
(***************************************************************************)
(* A controlled load: the worker resolves the control rows of a job and    *)
(* marks them, the job reads each source table past its watermark, writes  *)
(* the destinations and updates the control row, and the worker writes the *)
(* end of the execution back to it.  Two jobs share the shape:             *)
(* controlled_mysql_to_targets (a Data Lake copy, then staging and upsert  *)
(* in PostgreSQL, from one cached read) and postgres_to_mysql (staging and *)
(* upsert in MySQL; every action on the DataFrame queries again).          *)
(*                                                                         *)
(* A source row is known by the instant of its incremental column; rows of *)
(* a table commit in the order of their instants.  Even instants are whole *)
(* seconds.                                                                *)
(***************************************************************************)
EXTENDS Integers, FiniteSets, Sequences, SequencesExt

CONSTANTS
  Load,        \* executions that may run at once
  ToTargets,   \* the controls of controlled_mysql_to_targets
  ToMySQL,     \* the controls of postgres_to_mysql
  MaxInstant,  \* bound: instants of the rows of each table
  MaxLoads,    \* bound: executions claimed
  MaxLoadFaults    \* bound: failed writes, interrupted jobs, dead workers, resets

ASSUME IngestionAssumption ==
  /\ ToTargets \intersect ToMySQL = {} /\ IsFiniteSet(ToTargets \union ToMySQL)
  /\ "none" \notin ToTargets \union ToMySQL
  /\ MaxInstant \in [ToTargets \union ToMySQL -> Nat]
  /\ {MaxLoads, MaxLoadFaults} \subseteq Nat

VARIABLES
  source, lake, target,  \* the rows of each table: committed, copied to S3, upserted
  staging,               \* stg_<table>_ingest: one name for every load of the table
  watermark,             \* watermark_atual (0: NULL)
  mark,                  \* status of the control row
  load,                  \* the jobs
  leftBy,                \* history: how the last load of a control ended
  astray,                \* history: the controls whose watermark was once set to another's, or later by hand
  loads, loadFaults

tables == <<source, lake, target, staging>>
ingestVars == <<tables, watermark, mark, load, leftBy, astray, loads, loadFaults>>

Control == ToTargets \union ToMySQL
None == "none"
Ends == {"success", "failed", "cancelled", "timeout"}
NoLoad == [step |-> "off", todo |-> <<>>, read |-> [c \in Control |-> 0], batch |-> {},
           control |-> None, summary |-> 0, about |-> None, failed |-> FALSE, worker |-> TRUE]

Latest(rows) == IF rows = {} THEN 0 ELSE CHOOSE r \in rows : \A q \in rows : q <= r
\* SELECT * ... WHERE incremental_column > watermark, or the whole table
Query(c, after) == {r \in source[c] : r > after}
\* _parse_ts keeps 19 characters of the timestamp: whole seconds
Seconds(instant) == (instant \div 2) * 2

InJob(l) == load[l].step \notin Ends \union {"off"}
At(l, step) == load[l].step = step
Now(l) == Head(load[l].todo)
Loading(c) == \E l \in Load : load[l].control = c \/ c \in Range(load[l].todo)
Proceed(l, step) == load' = [load EXCEPT ![l].step = step]

IngestInit ==
  /\ source = [c \in Control |-> {}] /\ lake = source /\ target = source /\ staging = source
  /\ watermark = [c \in Control |-> 0]
  /\ mark = [c \in Control |-> "PENDENTE"]
  /\ load = [l \in Load |-> NoLoad]
  /\ leftBy = [c \in Control |-> "ended"]
  /\ astray = {}
  /\ loads = 0 /\ loadFaults = 0

Arrive(c) ==
  /\ Latest(source[c]) < MaxInstant[c]
  /\ source' = [source EXCEPT ![c] = @ \union {Latest(@) + 1}]
  /\ UNCHANGED <<lake, target, staging, watermark, mark, load, leftBy, astray, loads, loadFaults>>

\* The controls a job selects: one (--control-id, --table-name), or a group.
Selections == {<<c>> : c \in Control} \union ({SetToSeq(ToTargets), SetToSeq(ToMySQL)} \ {<<>>})
\* execution.control_id: the job's own control (job.ingestion_control_id or --control-id), which
\* need not be one it selects, or else primary_control_id, the only one of T2C_CONTROL_CONFIG.
Primary(selected, own) ==
  IF own # None THEN own
  ELSE IF Len(selected) = 1 /\ selected[1] \in ToTargets THEN selected[1] ELSE None
Marked(c, status) == IF c = None THEN mark ELSE [mark EXCEPT ![c] = status]
Left(c, how) == IF c = None THEN leftBy ELSE [leftBy EXCEPT ![c] = how]
ReadsAt(l, selected) == [c \in Control |-> IF c \in Range(selected) THEN watermark[c] ELSE load[l].read[c]]

\* _run_one up to the submit: resolve_control and build_controlled_config, which puts the
\* watermark of every selected control in the job's configuration; _mark_control_running,
\* whose failure is logged.
Prepare(l) ==
  /\ At(l, "off") /\ loads < MaxLoads /\ loads' = loads + 1
  /\ \E selected \in Selections, own \in Control \union {None} :
       LET c == Primary(selected, own)
       IN /\ mark' \in {mark, Marked(c, "EM_EXECUCAO")}
          /\ leftBy' = Left(c, "loading")
          /\ load' = [load EXCEPT ![l] =
               [NoLoad EXCEPT !.step = "start", !.todo = selected, !.control = c,
                              !.read = ReadsAt(l, selected)]]
  /\ UNCHANGED <<tables, watermark, astray, loadFaults>>

\* An exception after the mark: _run_one returns and writes nothing back.
PrepareFails(l) ==
  /\ At(l, "off") /\ loads < MaxLoads /\ loads' = loads + 1
  /\ \E c \in Control : mark' = Marked(c, "EM_EXECUCAO") /\ leftBy' = Left(c, "unprepared")
  /\ UNCHANGED <<tables, watermark, load, astray, loadFaults>>

\* main: postgres_to_mysql reads the control rows itself (load_control).
Start(l) ==
  /\ At(l, "start")
  /\ LET mine == SelectSeq(load[l].todo, LAMBDA c : c \in ToMySQL)
     IN load' = [load EXCEPT ![l].step = "next", ![l].read = ReadsAt(l, mine)]
  /\ UNCHANGED <<tables, watermark, mark, leftBy, astray, loads, loadFaults>>

\* read_source, count, maximum. postgres_to_mysql marks the row first, and prepares its
\* staging table even when there is nothing to write.
ReadSource(l) ==
  /\ At(l, "next") /\ load[l].todo # <<>>
  /\ LET c == Now(l)
     IN /\ load' = [load EXCEPT ![l].batch = Query(c, load[l].read[c]),
                                ![l].step = IF c \in ToTargets THEN "copy" ELSE "recreate"]
        /\ IF c \in ToMySQL THEN mark' = Marked(c, "EM_EXECUCAO") /\ leftBy' = Left(c, "loading")
                            ELSE UNCHANGED <<mark, leftBy>>
  /\ UNCHANGED <<tables, watermark, astray, loads, loadFaults>>

\* write_s3: the destination of lower write_order, appended even when it is empty.
CopyToLake(l) ==
  /\ At(l, "copy")
  /\ lake' = [lake EXCEPT ![Now(l)] = @ \union load[l].batch]
  /\ Proceed(l, IF load[l].batch = {} THEN "report" ELSE "recreate")
  /\ UNCHANGED <<source, target, staging, watermark, mark, leftBy, astray, loads, loadFaults>>

\* DROP and CREATE, or CREATE IF NOT EXISTS and TRUNCATE, of the staging table.
Recreate(l) ==
  /\ At(l, "recreate")
  /\ staging' = [staging EXCEPT ![Now(l)] = {}]
  /\ Proceed(l, IF load[l].batch = {} THEN "report" ELSE "append")
  /\ UNCHANGED <<source, lake, target, watermark, mark, leftBy, astray, loads, loadFaults>>

\* Spark appends the batch: the cached one, or what the query now returns.
AppendStaging(l) ==
  /\ At(l, "append")
  /\ LET c == Now(l)
     IN staging' = [staging EXCEPT ![c] =
          @ \union IF c \in ToTargets THEN load[l].batch ELSE Query(c, load[l].read[c])]
  /\ Proceed(l, "upsert")
  /\ UNCHANGED <<source, lake, target, watermark, mark, leftBy, astray, loads, loadFaults>>

\* INSERT ... SELECT FROM staging with the upsert clause. An empty staging table is no error.
Upsert(l) ==
  /\ At(l, "upsert")
  /\ target' = [target EXCEPT ![Now(l)] = @ \union staging[Now(l)]]
  /\ Proceed(l, "clear")
  /\ UNCHANGED <<source, lake, staging, watermark, mark, leftBy, astray, loads, loadFaults>>

\* The connection commits each statement: the staging is dropped or truncated by another.
ClearStaging(l) ==
  /\ At(l, "clear")
  /\ staging' = [staging EXCEPT ![Now(l)] = {}]
  /\ Proceed(l, "report")
  /\ UNCHANGED <<source, lake, target, watermark, mark, leftBy, astray, loads, loadFaults>>

NextControl(l, summary, failed) ==
  load' = [load EXCEPT ![l].step = "next", ![l].todo = Tail(@), ![l].batch = {},
                       ![l].summary = summary, ![l].about = Now(l), ![l].failed = @ \/ failed]

\* mutant: the maximum is asked of the source again
LatestRead_Requeried(l) == Latest(source[Now(l)])
LatestRead(l) == Latest(load[l].batch)
\* update_control of a load that wrote everything, and its INGEST_SUMMARY line.
Summarize(l) ==
  /\ At(l, "report")
  /\ LET c == Now(l)
         latest == LatestRead(l)
         idle == IF c \in ToTargets THEN load[l].read[c] ELSE 0
     IN /\ mark' = Marked(c, "SUCESSO")
        /\ watermark' = IF latest = 0 THEN watermark ELSE [watermark EXCEPT ![c] = latest]
        /\ NextControl(l, IF latest = 0 THEN idle ELSE latest, FALSE)
        /\ leftBy' = Left(c, "ended")
  /\ UNCHANGED <<tables, astray, loads, loadFaults>>

\* The query raises: postgres_to_mysql takes it for a failure of the table, the other job ends.
ReadFails(l) ==
  /\ At(l, "next") /\ load[l].todo # <<>>
  /\ loadFaults < MaxLoadFaults /\ loadFaults' = loadFaults + 1
  /\ IF Now(l) \in ToMySQL
     THEN /\ mark' = Marked(Now(l), "ERRO") /\ leftBy' = Left(Now(l), "ended")
          /\ NextControl(l, load[l].read[Now(l)], TRUE)
     ELSE Proceed(l, "failed") /\ UNCHANGED <<mark, leftBy>>
  /\ UNCHANGED <<tables, watermark, astray, loads>>

\* update_control raises when the load is over. controlled_mysql_to_targets logs it and reports
\* a success; the other job counts a failure, and the row stays as it was marked if ERRO
\* cannot be written either.
ControlUnreachable(l) ==
  /\ At(l, "report")
  /\ loadFaults < MaxLoadFaults /\ loadFaults' = loadFaults + 1
  /\ IF Now(l) \in ToTargets
     THEN /\ NextControl(l, IF LatestRead(l) = 0 THEN load[l].read[Now(l)] ELSE LatestRead(l), FALSE)
          /\ UNCHANGED <<mark, leftBy>>
     ELSE /\ NextControl(l, load[l].read[Now(l)], TRUE)
          /\ \/ mark' = Marked(Now(l), "ERRO") /\ leftBy' = Left(Now(l), "ended")
             \/ leftBy' = Left(Now(l), "unreported") /\ UNCHANGED mark
  /\ UNCHANGED <<tables, watermark, astray, loads>>

\* A write raises: the row is marked ERRO and the watermark stays; the other
\* controls of the group go on.
WriteFails(l) ==
  /\ load[l].step \in {"copy", "recreate", "append", "upsert", "clear"}
  /\ loadFaults < MaxLoadFaults /\ loadFaults' = loadFaults + 1
  /\ mark' = Marked(Now(l), "ERRO")
  /\ leftBy' = Left(Now(l), "ended")
  /\ NextControl(l, load[l].read[Now(l)], TRUE)
  /\ UNCHANGED <<tables, watermark, astray, loads>>

\* The process ends, or is killed on a cancel request or at the timeout.
Exit(l) ==
  /\ At(l, "next") /\ load[l].todo = <<>>
  /\ load' = [load EXCEPT ![l].step = IF load[l].failed THEN "failed" ELSE "success"]
  /\ UNCHANGED <<tables, watermark, mark, leftBy, astray, loads, loadFaults>>

Kill(l) ==
  /\ InJob(l) /\ load[l].worker /\ loadFaults < MaxLoadFaults /\ loadFaults' = loadFaults + 1
  /\ \E how \in {"cancelled", "timeout"} : Proceed(l, how)
  /\ leftBy' = IF load[l].todo = <<>> THEN leftBy ELSE Left(Now(l), "killed")
  /\ UNCHANGED <<tables, watermark, mark, astray, loads>>

\* The process ends by itself, with an exit code that is not 0 and nothing written: spark-submit
\* fails, or the driver is killed.
Die(l) ==
  /\ InJob(l) /\ loadFaults < MaxLoadFaults /\ loadFaults' = loadFaults + 1
  /\ Proceed(l, "failed")
  /\ leftBy' = IF load[l].todo = <<>> THEN leftBy ELSE Left(Now(l), "killed")
  /\ UNCHANGED <<tables, watermark, mark, astray, loads>>

\* The worker dies: the process, in a session of its own, goes on without it.
Orphan(l) ==
  /\ load[l].step # "off" /\ load[l].worker
  /\ loadFaults < MaxLoadFaults /\ loadFaults' = loadFaults + 1
  /\ leftBy' = Left(load[l].control, "orphaned")
  /\ load' = [load EXCEPT ![l].control = None, ![l].worker = FALSE]
  /\ UNCHANGED <<tables, watermark, mark, astray, loads>>

\* mutant: an execution that timed out has no entry either
ControlStatus_NoTimeout(end, before) == IF end = "success" THEN "SUCESSO" ELSE IF end = "failed" THEN "ERRO" ELSE before
\* _CONTROL_STATUS: a cancelled execution has no entry.
ControlStatus(end, before) ==
  CASE end = "success" -> "SUCESSO"
    [] end \in {"failed", "timeout"} -> "ERRO"
    [] OTHER -> before

\* _capture_summary keeps what the job said of its last table, when it succeeded.
Captured(l) == IF At(l, "success") THEN load[l].summary ELSE 0

\* _update_control_from_execution: the watermark of the last INGEST_SUMMARY the job printed,
\* whichever table it is about.
WriteBack(l) ==
  /\ load[l].step \in Ends
  /\ LET c == load[l].control
     IN IF c = None THEN UNCHANGED <<watermark, mark, leftBy, astray>>
        ELSE /\ mark' = Marked(c, ControlStatus(load[l].step, mark[c]))
             /\ watermark' = IF Captured(l) = 0 THEN watermark
                             ELSE [watermark EXCEPT ![c] = Seconds(Captured(l))]
             /\ astray' = IF Captured(l) # 0 /\ load[l].about # c THEN astray \union {c} ELSE astray
             /\ leftBy' = Left(c, IF At(l, "cancelled") THEN "cancelled" ELSE "ended")
  /\ load' = [load EXCEPT ![l] = NoLoad]
  /\ UNCHANGED <<tables, loads, loadFaults>>

\* It raises: the worker logs it and goes on, and the control row stays as it was.
WriteBackFails(l) ==
  /\ load[l].step \in Ends /\ load[l].control # None
  /\ loadFaults < MaxLoadFaults /\ loadFaults' = loadFaults + 1
  /\ leftBy' = Left(load[l].control, "unwritten")
  /\ load' = [load EXCEPT ![l] = NoLoad]
  /\ UNCHANGED <<tables, watermark, mark, astray, loads>>

\* create_backfill with reset_watermark: to whatever instant the request says. One later than
\* the watermark skips rows, and is meant to.
Reset(c) ==
  /\ loadFaults < MaxLoadFaults /\ loadFaults' = loadFaults + 1
  /\ \E value \in 0..(MaxInstant[c] + 1) :
       /\ watermark' = [watermark EXCEPT ![c] = value]
       /\ astray' = IF value > watermark[c] THEN astray \union {c} ELSE astray
  /\ UNCHANGED <<tables, mark, load, leftBy, loads>>

LoadStep(l) ==
  \/ Prepare(l) \/ PrepareFails(l) \/ Start(l) \/ ReadSource(l) \/ CopyToLake(l)
  \/ Recreate(l) \/ AppendStaging(l) \/ Upsert(l) \/ ClearStaging(l) \/ Summarize(l)
  \/ ReadFails(l) \/ ControlUnreachable(l) \/ WriteFails(l)
  \/ Exit(l) \/ Kill(l) \/ Die(l) \/ Orphan(l) \/ WriteBack(l) \/ WriteBackFails(l)

IngestNext ==
  \/ \E l \in Load : LoadStep(l)
  \/ \E c \in Control : Arrive(c) \/ Reset(c)

IngestSpec == IngestInit /\ [][IngestNext]_ingestVars

-----------------------------------------------------------------------------
IngestTypeOK ==
  /\ \A c \in Control \ astray : watermark[c] <= MaxInstant[c]
  /\ \A c \in Control : /\ watermark[c] \in Nat
                        /\ staging[c] \union target[c] \union lake[c] \subseteq source[c]
  /\ \A l \in Load : load[l].control \in Control \union {None}
  /\ \A l \in Load : load[l].step \in Ends \union {"off"} => load[l].batch = {} \/ load[l].todo # <<>>

Covered(c) == \A r \in source[c] : r <= watermark[c] =>
  /\ r \in target[c]
  /\ c \in ToTargets => r \in lake[c]

\* The watermark of a control never passes a row that is not in its destinations, whatever
\* write fails, whichever process dies and whatever is reset, when no two loads use one staging
\* table at a time. Excused is a control that was reset to a later instant, or given the
\* watermark of another table: by a job whose own control is not the one it loaded last.
NoRowLeftBehind == \A c \in Control \ astray : Covered(c)

\* A control left EM_EXECUCAO while nothing loads it was last left by a cancelled execution,
\* by a worker or a job that died or was killed, by a preparation or a write-back that failed, or
\* by a job that could not reach the control table: every other end settles it.
MarkedOnlyByAccident ==
  \A c \in Control : (mark[c] = "EM_EXECUCAO" /\ ~Loading(c)) =>
    leftBy[c] \in {"killed", "cancelled", "orphaned", "unprepared", "unreported", "unwritten"}

\* The watermark of a control is that of a row of its own table that was processed
\* (docs/job-postgres-to-mysql-controlled.md: the greatest incremental value processed): an
\* execution without a fault gives it that of another.
WatermarkIsProcessed == \A c \in Control : watermark[c] \in target[c] \union {0}
=============================================================================
