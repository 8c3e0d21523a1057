------------------------------- MODULE Quality -------------------------------
(***************************************************************************)
(* After a job ends, its worker grades what it loaded: one result for each *)
(* INGEST_SUMMARY line, the alerts, the events for t2c_data and the        *)
(* summary on the execution, in one transaction; emit() rolls back all of  *)
(* it that came before when it fails.  On every tick the orchestrator      *)
(* announces the loads that were slow, empty or did not advance.           *)
(***************************************************************************)
EXTENDS Events

CONSTANTS
  Report,       \* what a job may print: a sequence of one line for each table, each with what
                \* the checks find of the table
  LoadControl,  \* the control rows that executions name
  MaxGraded,    \* bound: executions
  MaxEmitFaults \* bound: alerts that could not be written, workers that died before grading

\* What a job reports has an order.
ASSUME QualityAssumption == \A ls \in Report : ls \in Seq({ls[i] : i \in DOMAIN ls})

VARIABLES
  graded,       \* executions, by id: state, lines, evaluated (quality_summary)
  results,      \* dq_results
  told,         \* executions an alert was raised for
  outbox,       \* integration_outbox, as a set of events
  emitLost,     \* history: executions an alert of which could not be written
  emitFaults

gradedVars == <<graded, results, told, outbox, emitLost, emitFaults>>
Ids == 1..Len(graded)
Check(name, status, severity) == [name |-> name, status |-> status, severity |-> severity]
NoGrade == "none"

GradeInit ==
  /\ graded = <<>> /\ results = {} /\ told = {} /\ outbox = {} /\ emitLost = {} /\ emitFaults = 0

\* An execution is created and ends, with the lines its job reported.
GradeStart(c) ==
  /\ Len(graded) < MaxGraded
  /\ graded' = Append(graded, [control |-> c, status |-> "queued", lines |-> <<>>, slow |-> FALSE,
                               quality |-> NoGrade])
  /\ UNCHANGED <<results, told, outbox, emitLost, emitFaults>>
GradeEnd(x, status, lines, slow) ==
  /\ graded[x].status = "queued"
  /\ graded' = [graded EXCEPT ![x].status = status, ![x].lines = lines, ![x].slow = slow]
  /\ UNCHANGED <<results, told, outbox, emitLost, emitFaults>>

-----------------------------------------------------------------------------
\* The columns of the execution come from the last line.
LastLine(x) == graded[x].lines[Len(graded[x].lines)]

PassIf(cond, otherwise) == IF cond THEN "pass" ELSE otherwise
EvaluateChecks(l) ==
  {Check("registros_lidos", PassIf(l.read > 0, "warn"), NoGrade),
   Check("gravados_vs_lidos", IF l.full THEN PassIf(l.written = l.read, "fail")
                              ELSE PassIf(l.written <= l.read, "warn"), NoGrade),
   Check("status_job", PassIf(l.ok, "fail"), NoGrade)}
  \union (IF l.full THEN {} ELSE {Check("watermark_avancou", PassIf(l.advanced, "warn"), NoGrade)})

\* The source and the target are counted, and the key of the target is checked, when both
\* can be reached.
Reconcile(l) ==
  CASE l.count = "off" -> {}
    [] l.count = "unreachable" -> {Check("reconcile_count", "skip", NoGrade)}
    [] OTHER -> {Check("reconcile_count", IF l.count = "same" THEN "pass" ELSE IF l.full THEN "fail" ELSE "warn",
                       NoGrade),
                 Check("pk_duplicates", PassIf(l.keys = "unique", "fail"), NoGrade)}

\* What is found under the partition of the bucket that the job says it wrote.
S3Checks(l, important) ==
  IF l.found \in {"no path", "unlisted"} THEN {Check("S3_TARGET", "skip", NoGrade)}
  ELSE {Check("S3_PARTITION_CREATED", PassIf(l.found # "empty", "fail"), "critical"),
        Check("S3_FILES_CREATED", PassIf(l.found # "empty", "fail"), "critical"),
        Check("S3_PARQUET_READABLE", CASE l.found = "empty" -> "skip" [] l.found = "unreadable" -> "fail"
                                       [] OTHER -> "pass", "critical"),
        LET empty == IF ~l.full /\ ~important THEN "info" ELSE "fail"
        IN Check("S3_RECORDS_WRITTEN_GT_ZERO", PassIf(l.written > 0, empty),
                 IF l.written = 0 /\ empty = "fail" THEN "critical" ELSE "info"),
        Check("S3_RECORDS_WRITTEN_MATCH_EXPECTED", PassIf(l.written = l.read, "warn"), NoGrade)}
       \union (IF l.full THEN {}
               ELSE {Check("S3_WATERMARK_ADVANCED", PassIf(l.advanced, IF important THEN "warn" ELSE "info"), NoGrade)})

Overall(checks) ==
  CASE Graded(checks, "fail") # {} -> "fail" [] Graded(checks, "warn") # {} -> "warn" [] OTHER -> "pass"

ChecksOf(x, l) ==
  EvaluateChecks(l) \union Reconcile(l)
  \union (IF l.found = "not s3" THEN {} ELSE S3Checks(l, graded[x].control.important))

\* The events of one table.
EventsOf(x, l) ==
  LET checks == ChecksOf(x, l) IN
  {LineageEvent(x), ResultEvent(x, l.table, checks), ScoreEvent(x, l.table, checks)}
  \union {CheckEvent(x, c.name) : c \in Critical(checks)}
  \union (IF Critical(checks) # {} THEN {IncidentEvent("DATA_QUALITY_CRITICAL", x)} ELSE {})
  \union (IF l.found \notin {"not s3", "no path"} THEN {FilesEvent(x, l.partition), PartitionEvent(x, l.partition)}
          ELSE {})

RowOf(x, l) == [x |-> x, table |-> l.table, overall |-> Overall(ChecksOf(x, l)),
                critical |-> Critical(ChecksOf(x, l)) # {}]

\* One table: its row, its alert (the failure of which undoes all that is not committed), its events.
EvaluateLine(x, l, lost, before) ==
  LET raised == Critical(ChecksOf(x, l)) # {}
      undone == raised /\ lost
  IN [results |-> IF undone THEN results ELSE before.results \union {RowOf(x, l)},
      told    |-> IF undone THEN told ELSE IF raised THEN before.told \union {x} ELSE before.told,
      outbox  |-> InsertedAll(IF undone THEN outbox ELSE before.outbox, EventsOf(x, l))]

Worst(overalls) == IF "fail" \in overalls THEN "fail" ELSE IF "warn" \in overalls THEN "warn" ELSE "pass"

Evaluate(x, lost) ==
  /\ graded[x].status \in {"success", "failed"} /\ graded[x].lines # <<>>
  /\ ~\E r \in results : r.x = x
  /\ graded[x].quality = NoGrade
  /\ lost \subseteq {i \in DOMAIN graded[x].lines : Critical(ChecksOf(x, graded[x].lines[i])) # {}}
  /\ emitFaults + Cardinality(lost) <= MaxEmitFaults /\ emitFaults' = emitFaults + Cardinality(lost)
  /\ LET ls == graded[x].lines
         after[i \in 0..Len(ls)] ==
           IF i = 0 THEN [results |-> results, told |-> told, outbox |-> outbox]
           ELSE EvaluateLine(x, ls[i], i \in lost, after[i - 1])
         end == after[Len(ls)]
     IN /\ results' = end.results /\ told' = end.told /\ outbox' = end.outbox
        /\ graded' = [graded EXCEPT ![x].quality = Worst({Overall(ChecksOf(x, ls[i])) : i \in DOMAIN ls})]
  /\ emitLost' = IF lost # {} THEN emitLost \union {x} ELSE emitLost

\* The worker dies after it committed the end of the execution: nobody evaluates it later.
NeverEvaluated(x) ==
  /\ graded[x].status \in {"success", "failed"} /\ graded[x].quality = NoGrade /\ graded[x].lines # <<>>
  /\ emitFaults < MaxEmitFaults /\ emitFaults' = emitFaults + 1
  /\ graded' = [graded EXCEPT ![x].quality = "never"]
  /\ UNCHANGED <<results, told, outbox, emitLost>>

-----------------------------------------------------------------------------
\* The latest execution of each control, whatever its status.
LastByControl == {x \in Ids : \A y \in Ids : y > x => graded[y].control # graded[x].control}
Reported(x) == graded[x].lines # <<>>
SlaBreaches == {x \in LastByControl : graded[x].slow}
\* An incremental load that wrote nothing is no news, unless the control is important.
ZeroRecords ==
  {x \in Ids : /\ graded[x].status = "success" /\ Reported(x)
               /\ LastLine(x).read = 0 \/ LastLine(x).written = 0
               /\ graded[x].control.important \/ graded[x].control.full}
\* Neither a queued nor a failed execution has a watermark_after.
WatermarkStalled ==
  {x \in LastByControl : ~graded[x].control.full /\ (~Reported(x) \/ ~LastLine(x).advanced)}

IncidentsNow == {<<"SLA_BREACH", x>> : x \in SlaBreaches} \union {<<"ZERO_RECORDS", x>> : x \in ZeroRecords}
                \union {<<"WATERMARK_STALLED", x>> : x \in WatermarkStalled}
PublishIncidents ==
  /\ outbox' = InsertedAll(outbox, {IncidentEvent(i[1], i[2]) : i \in IncidentsNow})
  /\ outbox' # outbox
  /\ UNCHANGED <<graded, results, told, emitLost, emitFaults>>

GradeNext ==
  \/ \E c \in LoadControl : GradeStart(c)
  \/ \E x \in Ids :
       \/ \E status \in {"success", "failed", "timeout"}, slow \in BOOLEAN, lines \in Report :
            GradeEnd(x, status, lines, slow)
       \/ \E lost \in SUBSET (DOMAIN graded[x].lines) : Evaluate(x, lost)
       \/ NeverEvaluated(x)
  \/ PublishIncidents

GradeSpec == GradeInit /\ [][GradeNext]_gradedVars
-----------------------------------------------------------------------------
GradeTypeOK ==
  /\ \A x \in Ids : graded[x].status \in {"queued", "success", "failed", "timeout"}
                    /\ graded[x].quality \in {NoGrade, "never", "pass", "warn", "fail"}
  /\ \A r \in results : r.x \in Ids /\ r.overall \in {"pass", "warn", "fail"}
  /\ told \subseteq Ids /\ emitLost \subseteq Ids

Grades == {<<"pass", "success">>, <<"warn", "warning">>, <<"fail", "failed">>}
Announced(key) == \E e \in outbox : e.key = key
\* Each row has its events, with the grade of the first row of the table, a critical one its incident,
\* and the execution the worst grade of all.
StoredIsAnnounced ==
  \A r \in results :
    /\ \E e \in outbox, s \in results :
         /\ e.key = <<"dq", r.x, r.table>> /\ s.x = r.x /\ s.table = r.table
         /\ <<s.overall, e.status>> \in Grades \/ r.x \in emitLost
    /\ Announced(<<"dq_score", r.x, r.table>>)
    /\ r.critical => Announced(<<"incident", "DATA_QUALITY_CRITICAL", r.x>>) /\ r.x \in told
    /\ r.overall = "fail" => graded[r.x].quality = "fail"
AnnouncedIsStored ==
  \A x \in Ids \ emitLost : \A i \in DOMAIN graded[x].lines :
    Announced(<<"dq", x, graded[x].lines[i].table>>) => \E r \in results : r.x = x /\ r.table = graded[x].lines[i].table
\* What an evaluation stores and what it tells t2c_data agree: what is stored is announced, and what
\* was announced has its row, unless an alert could not be written.
ResultsAreAnnounced == StoredIsAnnounced /\ AnnouncedIsStored
=============================================================================
