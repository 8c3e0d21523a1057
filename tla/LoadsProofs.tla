------------------------------ MODULE LoadsProofs ------------------------------
(***************************************************************************)
(* What holds of the loads for every value of the constants: the           *)
(* watermarks and the rows they stand for, the results of the checks and   *)
(* their events, the schemas of the Data Lake and their events, the        *)
(* libraries of the runtime, and the code of the jobs.  Each part has an   *)
(* inductive invariant of its own; the parts share no state, and MCLoads   *)
(* puts them side by side with the outbox.                                 *)
(***************************************************************************)
EXTENDS MCLoads, OutboxProofs, FiniteSetTheorems, WellFoundedInduction, TLAPS

-----------------------------------------------------------------------------
(* Numbers.                                                                *)

\* A set of numbers that is not empty has a least one.
LEMMA Least == ASSUME NEW T, T \subseteq Nat, T # {} PROVE \E x \in T : \A y \in T : x <= y
<1> DEFINE R == OpToRel(<, Nat)
<1>1. IsWellFoundedOn(R, Nat)
  BY NatLessThanWellFounded
<1>2. \A x, y \in Nat : x < y => <<x, y>> \in R
  BY DEF OpToRel
<1> HIDE DEF R
<1>3. PICK x \in T : \A y \in T : ~(<<y, x>> \in R)
  BY <1>1, WFMin
<1>4. ASSUME NEW y \in T PROVE x <= y
  <2>1. x \in Nat /\ y \in Nat /\ ~(y < x)
    BY <1>2, <1>3
  <2> QED BY <2>1
<1> QED BY <1>4

\* A set that has 0, and with each number the next one, has all of them.
LEMMA Induct ==
  ASSUME NEW T, 0 \in T, \A n \in Nat : n \in T => n + 1 \in T
  PROVE  Nat \subseteq T
<1>1. SUFFICES ASSUME Nat \ T # {} PROVE FALSE
  OBVIOUS
<1>2. PICK x \in Nat \ T : \A y \in Nat \ T : x <= y
  BY <1>1, Least
<1>3. x # 0 /\ x - 1 \in Nat /\ x - 1 \in T
  BY <1>2
<1> QED BY <1>2, <1>3

-----------------------------------------------------------------------------
Working == {"copy", "recreate", "append", "upsert", "clear", "report"}
LoadSteps == {"off", "start", "next"} \union Working \union Ends
Marks == {"PENDENTE", "EM_EXECUCAO", "SUCESSO", "ERRO"}
Ways == {"ended", "loading", "killed", "cancelled", "orphaned", "unprepared", "unreported", "unwritten"}
\* Some of the first rows of a table.
FewRows == {rows \in SUBSET Nat : \E k \in Nat : rows \subseteq 1..k}

LoadRow ==
  [step : LoadSteps, todo : Seq(Control), read : [Control -> Nat], batch : FewRows,
   control : Control \union {None}, summary : Nat, about : Control \union {None}, failed : BOOLEAN,
   worker : BOOLEAN]

Tables == [Control -> FewRows]
IngestTypes ==
  /\ source \in Tables /\ lake \in Tables /\ target \in Tables /\ staging \in Tables
  /\ \A c \in Control : \E k \in Nat : source[c] = 1..k
  /\ watermark \in [Control -> Nat] /\ mark \in [Control -> Marks] /\ leftBy \in [Control -> Ways]
  /\ load \in [Load -> LoadRow]
  /\ \A l \in Load : load[l].step \in Working => load[l].todo # <<>>

\* The latest of some rows is one of them, and none is later.
LEMMA LatestRow ==
  ASSUME NEW rows \in FewRows
  PROVE  /\ Latest(rows) \in Nat /\ \A r \in rows : r <= Latest(rows)
         /\ rows = {} => Latest(rows) = 0
         /\ rows # {} => Latest(rows) \in rows /\ Latest(rows) > 0
<1>1. PICK k \in Nat : rows \subseteq 1..k
  BY DEF FewRows
<1>2. CASE rows = {}
  BY <1>2 DEF Latest
<1>3. CASE rows # {}
  <2> DEFINE over == {k - r : r \in rows}
  <2>1. over \subseteq Nat /\ over # {}
    <3>1. \A r \in rows : k - r \in Nat
      BY <1>1
    <3>2. \E r \in rows : TRUE
      BY <1>3
    <3> QED BY <3>1, <3>2
  <2>2. PICK least \in over : \A y \in over : least <= y
    <3> HIDE DEF over
    <3> QED BY <2>1, Least
  <2>3. PICK r \in rows : least = k - r
    BY <2>2
  <2>4. \A q \in rows : q <= r
    <3>1. \A q \in rows : k - q \in over
      OBVIOUS
    <3>2. \A q \in rows : k - r <= k - q
      BY <2>2, <2>3, <3>1
    <3> QED BY <1>1, <3>2
  <2>5. Latest(rows) \in rows /\ \A q \in rows : q <= Latest(rows)
    BY <1>3, <2>3, <2>4 DEF Latest
  <2>6. \A q \in rows : q \in Nat /\ q > 0
    BY <1>1
  <2> HIDE DEF over
  <2> QED BY <1>3, <2>5, <2>6
<1> QED BY <1>2, <1>3

LEMMA FewAreFew ==
  /\ {} \in FewRows
  /\ \A k \in Nat : 1..k \in FewRows
  /\ \A rows, more \in FewRows : rows \union more \in FewRows
  /\ \A rows \in FewRows : \A some \in SUBSET rows : some \in FewRows
<1>1. {} \in FewRows
  BY 0 \in Nat DEF FewRows
<1>2. \A k \in Nat : 1..k \in FewRows
  BY DEF FewRows
<1>3. ASSUME NEW rows \in FewRows, NEW more \in FewRows PROVE rows \union more \in FewRows
  <2>1. PICK k \in Nat : rows \subseteq 1..k
    BY DEF FewRows
  <2>2. PICK m \in Nat : more \subseteq 1..m
    BY DEF FewRows
  <2>3. rows \union more \subseteq 1..(k + m)
    BY <2>1, <2>2
  <2>4. k + m \in Nat /\ rows \union more \subseteq Nat
    BY <2>3
  <2> QED BY <2>3, <2>4 DEF FewRows
<1>4. \A rows \in FewRows : \A some \in SUBSET rows : some \in FewRows
  BY DEF FewRows
<1> QED BY <1>1, <1>2, <1>3, <1>4

\* A job loads controls.
LEMMA SelectionsAreControls == Selections \subseteq Seq(Control) \ {<<>>}
<1>1. \A c \in Control : <<c>> \in Seq(Control) /\ <<c>> # <<>>
  OBVIOUS
<1>2. ASSUME NEW S \in SUBSET Control PROVE SetToSeq(S) \in Seq(Control)
  <2>1. IsFiniteSet(S)
    BY IngestionAssumption, FS_Subset DEF Control
  <2>2. Cardinality(S) \in Nat /\ ExistsBijection(1..Cardinality(S), S)
    BY <2>1, FS_CardinalityType
  <2>3. \E f \in [1..Cardinality(S) -> S] : IsInjective(f)
    BY <2>2 DEF ExistsBijection, Bijection, Injection
  <2>4. SetToSeq(S) \in [1..Cardinality(S) -> S]
    BY <2>3 DEF SetToSeq
  <2>5. \A n \in Nat : [1..n -> S] \subseteq Seq(Control)
    BY ONLY S \in SUBSET Control
  <2> QED BY <2>2, <2>4, <2>5
<1>3. ToTargets \in SUBSET Control /\ ToMySQL \in SUBSET Control
  BY DEF Control
<1> QED BY <1>1, <1>2, <1>3 DEF Selections

TodoWhileWorking(rows) == \A l \in Load : rows[l].step \in Working => rows[l].todo # <<>>

LEMMA RowWritten ==
  ASSUME NEW rows \in [Load -> LoadRow], NEW after, NEW l \in Load, NEW row \in LoadRow,
         after = [rows EXCEPT ![l] = row],
         TodoWhileWorking(rows), row.step \in Working => row.todo # <<>>
  PROVE  after \in [Load -> LoadRow] /\ TodoWhileWorking(after)
BY DEF TodoWhileWorking

LEMMA NoLoadTypes == NoLoad \in LoadRow
<1>1. [c \in Control |-> 0] \in [Control -> Nat] /\ <<>> \in Seq(Control) /\ {} \in FewRows
  BY FewAreFew
<1> QED BY <1>1 DEF NoLoad, LoadRow, LoadSteps

LEMMA ReadsTypes ==
  ASSUME IngestTypes, NEW l \in Load, NEW selected
  PROVE  ReadsAt(l, selected) \in [Control -> Nat]
BY DEF ReadsAt, IngestTypes, LoadRow

LEMMA Settled ==
  ASSUME IngestTypes, NEW c \in Control \union {None}, NEW ending \in Marks, NEW how \in Ways
  PROVE  Marked(c, ending) \in [Control -> Marks] /\ Left(c, how) \in [Control -> Ways]
BY DEF Marked, Left, IngestTypes

LEMMA RowTypes ==
  ASSUME IngestTypes, NEW l \in Load
  PROVE  /\ load[l] \in LoadRow /\ load[l].todo \in Seq(Control) /\ load[l].read \in [Control -> Nat]
         /\ load[l].batch \in FewRows /\ load[l].control \in Control \union {None}
         /\ load[l].summary \in Nat /\ load[l].about \in Control \union {None} /\ load[l].failed \in BOOLEAN /\ load[l].step \in LoadSteps
         /\ load[l].todo # <<>> => Now(l) \in Control /\ Tail(load[l].todo) \in Seq(Control)
         /\ load[l].step \in Working => load[l].todo # <<>>
<1>1. load[l] \in LoadRow /\ (load[l].step \in Working => load[l].todo # <<>>)
  BY DEF IngestTypes
<1>2. \A s \in Seq(Control) : s # <<>> => Head(s) \in Control /\ Tail(s) \in Seq(Control)
  OBVIOUS
<1> QED BY <1>1, <1>2 DEF LoadRow, Now

\* The row of an execution once a step of its job was taken, or a control finished.
LEMMA StepTypes ==
  ASSUME IngestTypes, NEW l \in Load, NEW step \in LoadSteps,
         step \in Working => load[l].todo # <<>>, Proceed(l, step)
  PROVE  load' \in [Load -> LoadRow] /\ TodoWhileWorking(load')
<1> DEFINE row == [load[l] EXCEPT !.step = step]
<1>1. row \in LoadRow /\ row.step = step /\ row.todo = load[l].todo
  BY RowTypes DEF LoadRow
<1>2. load' = [load EXCEPT ![l] = row]
  BY DEF Proceed
<1> HIDE DEF row
<1> QED BY <1>1, <1>2, RowWritten DEF IngestTypes, TodoWhileWorking

LEMMA NextTypes ==
  ASSUME IngestTypes, NEW l \in Load, NEW summary \in Nat, NEW failed \in BOOLEAN,
         load[l].todo # <<>>, NextControl(l, summary, failed)
  PROVE  load' \in [Load -> LoadRow] /\ TodoWhileWorking(load')
<1> DEFINE row == [load[l] EXCEPT !.step = "next", !.todo = Tail(@), !.batch = {},
                                  !.summary = summary, !.about = Now(l), !.failed = @ \/ failed]
<1>1. /\ load[l] \in LoadRow /\ Tail(load[l].todo) \in Seq(Control) /\ {} \in FewRows /\ Now(l) \in Control
      /\ (load[l].failed \/ failed) \in BOOLEAN
  BY RowTypes, FewAreFew
<1>2. row \in LoadRow /\ row.step = "next"
  BY <1>1 DEF LoadRow, LoadSteps
<1>3. load' = [load EXCEPT ![l] = row]
  BY DEF NextControl
<1> HIDE DEF row
<1>4. "next" \notin Working
  BY DEF Working
<1> QED BY <1>2, <1>3, <1>4, RowWritten DEF IngestTypes, TodoWhileWorking

LEMMA InitTypes == ASSUME IngestInit PROVE IngestTypes
<1>1. [c \in Control |-> {}] \in Tables
  BY FewAreFew DEF Tables
<1>2. source \in Tables /\ lake \in Tables /\ target \in Tables /\ staging \in Tables
  BY <1>1 DEF IngestInit
<1>3. \A c \in Control : \E k \in Nat : source[c] = 1..k
  <2>1. {} = 1..0
    OBVIOUS
  <2> QED BY <2>1, 0 \in Nat DEF IngestInit
<1>4. load \in [Load -> LoadRow]
  BY NoLoadTypes DEF IngestInit
<1>5. \A l \in Load : load[l].step = "off"
  BY DEF IngestInit, NoLoad
<1> QED BY <1>2, <1>3, <1>4, <1>5 DEF IngestInit, IngestTypes, Working, Marks, Ways

\* What the types of the whole state need of a step of a job.
LEMMA JobStepTypes ==
  ASSUME IngestTypes, UNCHANGED source,
         lake' \in Tables, target' \in Tables, staging' \in Tables,
         watermark' \in [Control -> Nat], mark' \in [Control -> Marks], leftBy' \in [Control -> Ways],
         load' \in [Load -> LoadRow] /\ TodoWhileWorking(load')
  PROVE  IngestTypes'
BY DEF IngestTypes, TodoWhileWorking

LEMMA PrepareTypes == ASSUME IngestTypes, NEW l \in Load, Prepare(l) PROVE IngestTypes'
<1>1. PICK selected \in Selections, own \in Control \union {None} :
        LET c == Primary(selected, own)
        IN /\ mark' \in {mark, Marked(c, "EM_EXECUCAO")}
           /\ leftBy' = Left(c, "loading")
           /\ load' = [load EXCEPT ![l] =
                [NoLoad EXCEPT !.step = "start", !.todo = selected, !.control = c,
                               !.read = ReadsAt(l, selected)]]
  BY DEF Prepare
<1>2. selected \in Seq(Control) /\ selected # <<>>
  BY SelectionsAreControls
<1>3. Primary(selected, own) \in Control \union {None}
  BY <1>2 DEF Primary
<1> DEFINE row == [NoLoad EXCEPT !.step = "start", !.todo = selected, !.control = Primary(selected, own),
                                 !.read = ReadsAt(l, selected)]
<1>4. row \in LoadRow /\ row.step = "start"
  BY <1>2, <1>3, ReadsTypes, NoLoadTypes DEF LoadRow, LoadSteps, NoLoad
<1>5. load' = [load EXCEPT ![l] = row]
  BY <1>1
<1> HIDE DEF row
<1>6. load' \in [Load -> LoadRow] /\ TodoWhileWorking(load')
  BY <1>4, <1>5, RowWritten DEF IngestTypes, TodoWhileWorking, Working
<1>7. mark' \in [Control -> Marks] /\ leftBy' \in [Control -> Ways]
  BY <1>1, <1>3, Settled, "EM_EXECUCAO" \in Marks, "loading" \in Ways DEF Marks, Ways, IngestTypes
<1>8. UNCHANGED <<source, lake, target, staging, watermark>>
  BY DEF Prepare, tables
<1> QED BY <1>6, <1>7, <1>8, JobStepTypes DEF IngestTypes

LEMMA StartTypes == ASSUME IngestTypes, NEW l \in Load, Start(l) PROVE IngestTypes'
<1> DEFINE mine == SelectSeq(load[l].todo, LAMBDA c : c \in ToMySQL)
           row == [load[l] EXCEPT !.step = "next", !.read = ReadsAt(l, mine)]
<1>1. load' = [load EXCEPT ![l] = row]
  BY DEF Start
<1> HIDE DEF mine
<1>2. row \in LoadRow /\ row.step = "next"
  BY RowTypes, ReadsTypes DEF LoadRow, LoadSteps
<1> HIDE DEF row
<1>3. load' \in [Load -> LoadRow] /\ TodoWhileWorking(load')
  BY <1>1, <1>2, RowWritten DEF IngestTypes, TodoWhileWorking, Working
<1> QED BY <1>3, JobStepTypes DEF Start, IngestTypes, tables

LEMMA ReadSourceTypes == ASSUME IngestTypes, NEW l \in Load, ReadSource(l) PROVE IngestTypes'
<1> DEFINE c == Now(l)
           row == [load[l] EXCEPT !.batch = Query(c, load[l].read[c]),
                                  !.step = IF c \in ToTargets THEN "copy" ELSE "recreate"]
<1>1. load[l].todo # <<>> /\ load' = [load EXCEPT ![l] = row]
  BY DEF ReadSource
<1>2. c \in Control
  BY <1>1, RowTypes
<1>3. Query(c, load[l].read[c]) \in FewRows
  BY <1>2, FewAreFew DEF Query, IngestTypes, Tables
<1>4. row \in LoadRow /\ row.todo = load[l].todo
  BY <1>3, RowTypes DEF LoadRow, LoadSteps, Working
<1>5. load' \in [Load -> LoadRow] /\ TodoWhileWorking(load')
  <2> HIDE DEF row
  <2> QED BY <1>1, <1>4, RowWritten DEF IngestTypes, TodoWhileWorking
<1>6. mark' \in [Control -> Marks] /\ leftBy' \in [Control -> Ways]
  <2>1. Marked(c, "EM_EXECUCAO") \in [Control -> Marks] /\ Left(c, "loading") \in [Control -> Ways]
    BY <1>2, Settled, "EM_EXECUCAO" \in Marks, "loading" \in Ways DEF Marks, Ways
  <2> QED BY <2>1 DEF ReadSource, IngestTypes
<1> QED BY <1>5, <1>6, JobStepTypes DEF ReadSource, IngestTypes, tables

LEMMA CopyToLakeTypes == ASSUME IngestTypes, NEW l \in Load, CopyToLake(l) PROVE IngestTypes'
<1>1. load[l].step \in Working /\ load[l].batch \in FewRows /\ Now(l) \in Control /\ load[l].todo # <<>>
  BY RowTypes DEF CopyToLake, At, Working
<1>2. lake' \in Tables
  BY <1>1, FewAreFew DEF CopyToLake, IngestTypes, Tables
<1>3. PICK step \in {"report", "recreate"} : Proceed(l, step)
  BY DEF CopyToLake
<1>4. load' \in [Load -> LoadRow] /\ TodoWhileWorking(load')
  BY <1>1, <1>3, StepTypes DEF LoadSteps, Working
<1> QED BY <1>2, <1>4, JobStepTypes DEF CopyToLake, IngestTypes

LEMMA RecreateTypes == ASSUME IngestTypes, NEW l \in Load, Recreate(l) PROVE IngestTypes'
<1>1. load[l].step \in Working /\ load[l].todo # <<>> /\ Now(l) \in Control
  BY RowTypes DEF Recreate, At, Working
<1>2. staging' \in Tables
  BY <1>1, FewAreFew DEF Recreate, IngestTypes, Tables
<1>3. PICK step \in {"report", "append"} : Proceed(l, step)
  BY DEF Recreate
<1>4. load' \in [Load -> LoadRow] /\ TodoWhileWorking(load')
  BY <1>1, <1>3, StepTypes DEF LoadSteps, Working
<1> QED BY <1>2, <1>4, JobStepTypes DEF Recreate, IngestTypes

LEMMA AppendStagingTypes == ASSUME IngestTypes, NEW l \in Load, AppendStaging(l) PROVE IngestTypes'
<1>1. load[l].step \in Working /\ load[l].batch \in FewRows /\ Now(l) \in Control /\ load[l].todo # <<>>
  BY RowTypes DEF AppendStaging, At, Working
<1> DEFINE appended == IF Now(l) \in ToTargets THEN load[l].batch ELSE Query(Now(l), load[l].read[Now(l)])
<1>2. appended \in FewRows
  BY <1>1, FewAreFew DEF Query, IngestTypes, Tables
<1>3. staging' = [staging EXCEPT ![Now(l)] = @ \union appended]
  BY DEF AppendStaging
<1> HIDE DEF appended
<1>4. staging' \in Tables
  BY <1>1, <1>2, <1>3, FewAreFew DEF IngestTypes, Tables
<1>5. load' \in [Load -> LoadRow] /\ TodoWhileWorking(load')
  BY <1>1, StepTypes DEF AppendStaging, LoadSteps, Working
<1> QED BY <1>4, <1>5, JobStepTypes DEF AppendStaging, IngestTypes

LEMMA UpsertTypes == ASSUME IngestTypes, NEW l \in Load, Upsert(l) PROVE IngestTypes'
<1>1. load[l].step \in Working /\ load[l].todo # <<>> /\ Now(l) \in Control
  BY RowTypes DEF Upsert, At, Working
<1>2. staging' \in Tables /\ target' \in Tables
  BY <1>1, FewAreFew DEF Upsert, IngestTypes, Tables
<1>3. load' \in [Load -> LoadRow] /\ TodoWhileWorking(load')
  BY <1>1, StepTypes DEF Upsert, LoadSteps, Working
<1> QED BY <1>2, <1>3, JobStepTypes DEF Upsert, IngestTypes

LEMMA ClearStagingTypes == ASSUME IngestTypes, NEW l \in Load, ClearStaging(l) PROVE IngestTypes'
<1>1. load[l].step \in Working /\ load[l].todo # <<>> /\ Now(l) \in Control
  BY RowTypes DEF ClearStaging, At, Working
<1>2. staging' \in Tables
  BY <1>1, FewAreFew DEF ClearStaging, IngestTypes, Tables
<1>3. load' \in [Load -> LoadRow] /\ TodoWhileWorking(load')
  BY <1>1, StepTypes DEF ClearStaging, LoadSteps, Working
<1> QED BY <1>2, <1>3, JobStepTypes DEF ClearStaging, IngestTypes

LEMMA SummarizeTypes == ASSUME IngestTypes, NEW l \in Load, Summarize(l) PROVE IngestTypes'
<1>1. load[l].step \in Working /\ load[l].todo # <<>> /\ Now(l) \in Control
  BY RowTypes DEF Summarize, At, Working
<1>2. LatestRead(l) \in Nat
  BY RowTypes, LatestRow DEF LatestRead
<1>3. load[l].read[Now(l)] \in Nat
  BY <1>1, RowTypes
<1>4. PICK summary \in Nat : NextControl(l, summary, FALSE)
  BY <1>2, <1>3 DEF Summarize
<1>5. load' \in [Load -> LoadRow] /\ TodoWhileWorking(load')
  BY <1>1, <1>4, NextTypes
<1>6. watermark' \in [Control -> Nat]
  BY <1>1, <1>2 DEF Summarize, IngestTypes
<1>7. mark' \in [Control -> Marks] /\ leftBy' \in [Control -> Ways]
  BY <1>1, Settled, "SUCESSO" \in Marks, "ended" \in Ways DEF Summarize, Marks, Ways
<1> QED BY <1>5, <1>6, <1>7, JobStepTypes DEF Summarize, IngestTypes, tables

LEMMA ErrorTypes ==
  ASSUME IngestTypes, NEW c \in Control
  PROVE  /\ Marked(c, "ERRO") \in [Control -> Marks] /\ Left(c, "ended") \in [Control -> Ways]
         /\ Left(c, "unreported") \in [Control -> Ways]
BY Settled, "ERRO" \in Marks, "ended" \in Ways, "unreported" \in Ways DEF Marks, Ways

LEMMA ReadFailsTypes == ASSUME IngestTypes, NEW l \in Load, ReadFails(l) PROVE IngestTypes'
<1>1. load[l].todo # <<>> /\ Now(l) \in Control /\ load[l].read[Now(l)] \in Nat
  BY RowTypes DEF ReadFails
<1>2. load' \in [Load -> LoadRow] /\ TodoWhileWorking(load')
  BY <1>1, NextTypes, StepTypes DEF ReadFails, LoadSteps, Ends
<1>3. mark' \in [Control -> Marks] /\ leftBy' \in [Control -> Ways]
  BY <1>1, ErrorTypes DEF ReadFails, IngestTypes
<1> QED BY <1>2, <1>3, JobStepTypes DEF ReadFails, IngestTypes, tables

LEMMA ControlUnreachableTypes ==
  ASSUME IngestTypes, NEW l \in Load, ControlUnreachable(l) PROVE IngestTypes'
<1>1. load[l].todo # <<>> /\ Now(l) \in Control /\ load[l].read[Now(l)] \in Nat
  BY RowTypes DEF ControlUnreachable, At, Working
<1>2. LatestRead(l) \in Nat
  BY RowTypes, LatestRow DEF LatestRead
<1>3. \E summary \in Nat : \E failed \in BOOLEAN : NextControl(l, summary, failed)
  BY <1>1, <1>2 DEF ControlUnreachable
<1>4. load' \in [Load -> LoadRow] /\ TodoWhileWorking(load')
  BY <1>1, <1>3, NextTypes
<1>5. mark' \in [Control -> Marks] /\ leftBy' \in [Control -> Ways]
  BY <1>1, ErrorTypes DEF ControlUnreachable, IngestTypes
<1> QED BY <1>4, <1>5, JobStepTypes DEF ControlUnreachable, IngestTypes, tables

LEMMA WriteFailsTypes == ASSUME IngestTypes, NEW l \in Load, WriteFails(l) PROVE IngestTypes'
<1>1. load[l].todo # <<>> /\ Now(l) \in Control /\ load[l].read[Now(l)] \in Nat
  BY RowTypes DEF WriteFails, Working
<1>2. load' \in [Load -> LoadRow] /\ TodoWhileWorking(load')
  BY <1>1, NextTypes DEF WriteFails
<1>3. mark' \in [Control -> Marks] /\ leftBy' \in [Control -> Ways]
  BY <1>1, ErrorTypes DEF WriteFails
<1> QED BY <1>2, <1>3, JobStepTypes DEF WriteFails, IngestTypes, tables

LEMMA ExitTypes == ASSUME IngestTypes, NEW l \in Load, Exit(l) PROVE IngestTypes'
<1>1. PICK step \in {"failed", "success"} : Proceed(l, step)
  BY DEF Exit, Proceed
<1>2. load' \in [Load -> LoadRow] /\ TodoWhileWorking(load')
  BY <1>1, StepTypes DEF LoadSteps, Working, Ends
<1> QED BY <1>2, JobStepTypes DEF Exit, IngestTypes, tables

LEMMA KillTypes == ASSUME IngestTypes, NEW l \in Load, Kill(l) \/ Die(l) PROVE IngestTypes'
<1>1. PICK how \in {"cancelled", "timeout", "failed"} : Proceed(l, how)
  BY DEF Kill, Die
<1>2. load' \in [Load -> LoadRow] /\ TodoWhileWorking(load')
  BY <1>1, StepTypes DEF LoadSteps, Working, Ends
<1>3. leftBy' \in [Control -> Ways]
  <2>1. load[l].todo # <<>> => Left(Now(l), "killed") \in [Control -> Ways]
    BY RowTypes, Settled, "killed" \in Ways, "ERRO" \in Marks DEF Ways, Marks
  <2> QED BY <2>1 DEF Kill, Die, IngestTypes
<1> QED BY <1>2, <1>3, JobStepTypes DEF Kill, Die, IngestTypes, tables

LEMMA OrphanTypes == ASSUME IngestTypes, NEW l \in Load, Orphan(l) PROVE IngestTypes'
<1> DEFINE row == [load[l] EXCEPT !.control = None, !.worker = FALSE]
<1>1. load' = [load EXCEPT ![l] = row]
  BY DEF Orphan
<1>2. row \in LoadRow /\ row.step = load[l].step /\ row.todo = load[l].todo
  BY RowTypes DEF LoadRow
<1>3. load' \in [Load -> LoadRow] /\ TodoWhileWorking(load')
  <2> HIDE DEF row
  <2> QED BY <1>1, <1>2, RowWritten DEF IngestTypes, TodoWhileWorking
<1>4. leftBy' \in [Control -> Ways]
  BY RowTypes, Settled, "orphaned" \in Ways, "ERRO" \in Marks DEF Ways, Marks, Orphan
<1> QED BY <1>3, <1>4, JobStepTypes DEF Orphan, IngestTypes, tables

LEMMA SecondsTypes ==
  ASSUME NEW n \in Nat PROVE Seconds(n) \in Nat /\ Seconds(n) <= n
BY DEF Seconds

LEMMA WriteBackTypes == ASSUME IngestTypes, NEW l \in Load, WriteBack(l) PROVE IngestTypes'
<1>1. load' = [load EXCEPT ![l] = NoLoad]
  BY DEF WriteBack
<1>2. load' \in [Load -> LoadRow] /\ TodoWhileWorking(load')
  BY <1>1, NoLoadTypes, RowWritten DEF IngestTypes, TodoWhileWorking, Working, NoLoad
<1>3. load[l].control \in Control \union {None} /\ load[l].step \in Ends /\ load[l].summary \in Nat
  BY RowTypes DEF WriteBack
<1>4. CASE load[l].control = None
  BY <1>2, <1>4, JobStepTypes DEF WriteBack, IngestTypes, tables
<1>5. CASE load[l].control # None
  <2> DEFINE c == load[l].control
  <2>1. c \in Control /\ mark[c] \in Marks
    BY <1>3, <1>5 DEF IngestTypes
  <2>2. ControlStatus(load[l].step, mark[c]) \in Marks
    BY <1>3, <2>1 DEF ControlStatus, Ends, Marks
  <2>3. mark' \in [Control -> Marks]
    BY <1>5, <2>1, <2>2, Settled, "ended" \in Ways DEF WriteBack, Ways
  <2>4. leftBy' \in [Control -> Ways]
    BY <1>5, <2>1, Settled, "ended" \in Ways, "cancelled" \in Ways, "ERRO" \in Marks DEF WriteBack, Ways, Marks
  <2>5. Captured(l) \in Nat
    BY <1>3 DEF Captured
  <2>6. watermark' \in [Control -> Nat]
    BY <1>5, <2>1, <2>5, SecondsTypes DEF WriteBack, IngestTypes
  <2> QED BY <1>2, <2>3, <2>4, <2>6, JobStepTypes DEF WriteBack, IngestTypes, tables
<1> QED BY <1>4, <1>5

LEMMA WriteBackFailsTypes == ASSUME IngestTypes, NEW l \in Load, WriteBackFails(l) PROVE IngestTypes'
<1>1. load' = [load EXCEPT ![l] = NoLoad]
  BY DEF WriteBackFails
<1>2. load' \in [Load -> LoadRow] /\ TodoWhileWorking(load')
  BY <1>1, NoLoadTypes, RowWritten DEF IngestTypes, TodoWhileWorking, Working, NoLoad
<1>3. leftBy' \in [Control -> Ways]
  BY RowTypes, Settled, "unwritten" \in Ways, "ERRO" \in Marks DEF Ways, Marks, WriteBackFails
<1> QED BY <1>2, <1>3, JobStepTypes DEF WriteBackFails, IngestTypes, tables

LEMMA PrepareFailsTypes == ASSUME IngestTypes, NEW l \in Load, PrepareFails(l) PROVE IngestTypes'
<1>1. PICK c \in Control : mark' = Marked(c, "EM_EXECUCAO") /\ leftBy' = Left(c, "unprepared")
  BY DEF PrepareFails
<1>2. mark' \in [Control -> Marks] /\ leftBy' \in [Control -> Ways]
  BY <1>1, Settled, "EM_EXECUCAO" \in Marks, "unprepared" \in Ways DEF Marks, Ways
<1> QED BY <1>2 DEF PrepareFails, IngestTypes, tables

LEMMA ArriveTypes ==
  ASSUME IngestTypes, NEW c \in Control, Arrive(c)
  PROVE  /\ IngestTypes'
         /\ \E k \in Nat : /\ source[c] = 1..k /\ source' = [source EXCEPT ![c] = 1..(k + 1)]
<1>1. PICK k \in Nat : source[c] = 1..k
  BY DEF IngestTypes
<1>2. Latest(1..k) = k
  <2>1. 1..k \in FewRows
    BY FewAreFew
  <2>2. CASE k = 0
    BY <2>1, <2>2, LatestRow
  <2>3. CASE k > 0
    <3>1. k \in 1..k /\ Latest(1..k) \in 1..k /\ k <= Latest(1..k)
      BY <2>1, <2>3, LatestRow
    <3> QED BY <3>1
  <2> QED BY <2>2, <2>3
<1>3. source' = [source EXCEPT ![c] = 1..(k + 1)]
  <2>1. (1..k) \union {k + 1} = 1..(k + 1)
    OBVIOUS
  <2> QED BY <1>1, <1>2, <2>1 DEF Arrive
<1>4. source' \in Tables /\ \A d \in Control : \E m \in Nat : source'[d] = 1..m
  <2>1. k + 1 \in Nat /\ 1..(k + 1) \in FewRows
    BY FewAreFew
  <2> QED BY <1>3, <2>1 DEF IngestTypes, Tables
<1>5. IngestTypes'
  BY <1>4 DEF Arrive, IngestTypes
<1> QED BY <1>1, <1>3, <1>5

LEMMA ResetTypes == ASSUME IngestTypes, NEW c \in Control, Reset(c) PROVE IngestTypes'
<1>1. PICK value \in 0..(MaxInstant[c] + 1) : watermark' = [watermark EXCEPT ![c] = value]
  BY DEF Reset
<1>2. value \in Nat
  OBVIOUS
<1> QED BY <1>1, <1>2 DEF Reset, IngestTypes, tables

LEMMA LoadTypesKept == ASSUME IngestTypes, [IngestNext]_ingestVars PROVE IngestTypes'
<1>1. CASE UNCHANGED ingestVars
  BY <1>1 DEF ingestVars, tables, IngestTypes
<1>2. ASSUME NEW l \in Load, LoadStep(l) PROVE IngestTypes'
  BY <1>2, PrepareTypes, PrepareFailsTypes, StartTypes, ReadSourceTypes, CopyToLakeTypes, RecreateTypes,
     AppendStagingTypes, UpsertTypes, ClearStagingTypes, SummarizeTypes, ReadFailsTypes, ControlUnreachableTypes,
     WriteFailsTypes, ExitTypes, KillTypes, OrphanTypes, WriteBackTypes, WriteBackFailsTypes DEF LoadStep
<1>3. ASSUME NEW c \in Control, Arrive(c) \/ Reset(c) PROVE IngestTypes'
  BY <1>3, ArriveTypes, ResetTypes
<1> QED BY <1>1, <1>2, <1>3 DEF IngestNext

-----------------------------------------------------------------------------
(* A control left EM_EXECUCAO: as long as it is said to be loading, an      *)
(* execution has it: its worker is to write the end back, or its job works  *)
(* on it and marks it itself.                                               *)

Has(row, c) == row.control = c \/ (row.step \in Working /\ Head(row.todo) = c /\ c \in ToMySQL)
LoadingIsHad(left, rows) == \A c \in Control : left[c] = "loading" => \E l \in Load : Has(rows[l], c)
RunningIsLeft(marks, left) == \A c \in Control : marks[c] = "EM_EXECUCAO" => left[c] # "ended"
NoneWhenOff(rows) == \A l \in Load : rows[l].step = "off" => rows[l].control = None
MarksInv ==
  IngestTypes /\ LoadingIsHad(leftBy, load) /\ RunningIsLeft(mark, leftBy) /\ NoneWhenOff(load)

\* One row changes: what is loading then is what the row has, or was loading and not what it had.
LEMMA HadStill ==
  ASSUME NEW rows, NEW after, NEW left, NEW later, NEW l \in Load,
         LoadingIsHad(left, rows),
         \A k \in Load \ {l} : after[k] = rows[k],
         \A c \in Control : later[c] = "loading" =>
           Has(after[l], c) \/ (left[c] = "loading" /\ ~Has(rows[l], c))
  PROVE  LoadingIsHad(later, after)
<1>1. SUFFICES ASSUME NEW c \in Control, later[c] = "loading", ~Has(after[l], c)
               PROVE  \E k \in Load : Has(after[k], c)
  BY DEF LoadingIsHad
<1>2. PICK k \in Load : Has(rows[k], c)
  BY <1>1 DEF LoadingIsHad
<1>3. k # l
  BY <1>1, <1>2
<1>4. after[k] = rows[k]
  BY <1>3
<1> QED BY <1>2, <1>4

\* A control is marked as running by who does not end it, or left otherwise than ended.
LEMMA MarkedStill ==
  ASSUME IngestTypes, RunningIsLeft(mark, leftBy), NEW c \in Control \union {None},
         NEW ending \in Marks, NEW how \in Ways, ending = "EM_EXECUCAO" => how # "ended"
  PROVE  /\ RunningIsLeft(Marked(c, ending), Left(c, how))
         /\ how # "ended" => RunningIsLeft(mark, Left(c, how))
BY DEF RunningIsLeft, Marked, Left, IngestTypes

LEMMA LeftAs ==
  ASSUME IngestTypes, NEW c \in Control \union {None}, NEW how
  PROVE  /\ \A d \in Control \ {c} : Left(c, how)[d] = leftBy[d]
         /\ c # None => Left(c, how)[c] = how
BY IngestionAssumption DEF Left, IngestTypes, None, Control

LEMMA InitMarks == ASSUME IngestInit PROVE MarksInv
BY InitTypes DEF IngestInit, MarksInv, LoadingIsHad, RunningIsLeft, NoneWhenOff, NoLoad

LEMMA MarkedHow ==
  /\ {"EM_EXECUCAO", "SUCESSO", "ERRO"} \subseteq Marks
  /\ {"ended", "loading", "killed", "cancelled", "orphaned", "unprepared", "unreported", "unwritten"} = Ways
BY DEF Marks, Ways

LEMMA ProceedFacts ==
  ASSUME IngestTypes, NEW l \in Load, NEW step, Proceed(l, step)
  PROVE  /\ \A k \in Load \ {l} : load'[k] = load[k]
         /\ load'[l].step = step /\ load'[l].todo = load[l].todo /\ load'[l].control = load[l].control
         /\ load'[l].read = load[l].read /\ load'[l].batch = load[l].batch
         /\ load'[l].summary = load[l].summary /\ load'[l].about = load[l].about
BY RowTypes DEF Proceed, IngestTypes, LoadRow

LEMMA NextFacts ==
  ASSUME IngestTypes, NEW l \in Load, NEW summary, NEW failed, NextControl(l, summary, failed)
  PROVE  /\ \A k \in Load \ {l} : load'[k] = load[k]
         /\ load'[l].step = "next" /\ load'[l].todo = Tail(load[l].todo)
         /\ load'[l].control = load[l].control /\ load'[l].read = load[l].read
         /\ load'[l].summary = summary /\ load'[l].about = Now(l)
BY RowTypes DEF NextControl, IngestTypes, LoadRow

LEMMA NoneIsNone == \A c \in Control : c # None
BY IngestionAssumption DEF Control, None

\* What the invariant needs of a step: the row is not given up, and the control it worked on is
\* not left loading.
LEMMA MarksStep ==
  ASSUME MarksInv, IngestTypes', NEW l \in Load,
         \A k \in Load \ {l} : load'[k] = load[k],
         load'[l].step # "off", load'[l].control = load[l].control,
         RunningIsLeft(mark', leftBy'),
         \A c \in Control : leftBy'[c] = "loading" => leftBy[c] = "loading" \/ Has(load'[l], c),
         load[l].step \in Working =>
           \/ leftBy'[Now(l)] # "loading" \/ Now(l) \in ToTargets
           \/ load'[l].step \in Working /\ load'[l].todo = load[l].todo
  PROVE  MarksInv'
<1>1. ASSUME NEW c \in Control, leftBy'[c] = "loading"
      PROVE  Has(load'[l], c) \/ (leftBy[c] = "loading" /\ ~Has(load[l], c))
  <2>1. SUFFICES ASSUME Has(load[l], c) PROVE Has(load'[l], c) \/ leftBy[c] # "loading"
    BY <1>1
  <2>2. CASE load[l].control = c
    BY <2>2 DEF Has
  <2>3. CASE load[l].step \in Working /\ Head(load[l].todo) = c /\ c \in ToMySQL
    BY <1>1, <2>3, IngestionAssumption DEF Has, Now
  <2> QED BY <2>1, <2>2, <2>3 DEF Has
<1>2. LoadingIsHad(leftBy', load')
  BY <1>1, HadStill DEF MarksInv
<1>3. NoneWhenOff(load')
  BY DEF NoneWhenOff, MarksInv
<1> QED BY <1>2, <1>3 DEF MarksInv

LEMMA PrepareMarks == ASSUME MarksInv, NEW l \in Load, Prepare(l) PROVE MarksInv'
<1>1. IngestTypes /\ IngestTypes' /\ LoadingIsHad(leftBy, load) /\ RunningIsLeft(mark, leftBy)
  BY PrepareTypes DEF MarksInv
<1>2. PICK selected \in Selections, own \in Control \union {None} :
        LET c == Primary(selected, own)
        IN /\ mark' \in {mark, Marked(c, "EM_EXECUCAO")}
           /\ leftBy' = Left(c, "loading")
           /\ load' = [load EXCEPT ![l] =
                [NoLoad EXCEPT !.step = "start", !.todo = selected, !.control = c,
                               !.read = ReadsAt(l, selected)]]
  BY DEF Prepare
<1> DEFINE c == Primary(selected, own)
<1>3. c \in Control \union {None}
  BY SelectionsAreControls DEF Primary
<1>4. RunningIsLeft(mark', leftBy')
  BY <1>1, <1>2, <1>3, MarkedStill, MarkedHow
<1>5. /\ \A k \in Load \ {l} : load'[k] = load[k]
      /\ load'[l].control = c /\ load'[l].step = "start"
  BY <1>1, <1>2 DEF IngestTypes, NoLoad
<1>6. \A d \in Control : ~Has(load[l], d)
  BY NoneIsNone DEF Prepare, At, Has, Working, MarksInv, NoneWhenOff
<1>7. ASSUME NEW d \in Control, leftBy'[d] = "loading"
      PROVE  Has(load'[l], d) \/ leftBy[d] = "loading"
  BY <1>1, <1>2, <1>3, <1>5, <1>7, LeftAs DEF Has
<1>8. LoadingIsHad(leftBy', load')
  BY <1>1, <1>5, <1>6, <1>7, HadStill
<1>9. NoneWhenOff(load')
  BY <1>5 DEF NoneWhenOff, MarksInv
<1> QED BY <1>1, <1>4, <1>8, <1>9 DEF MarksInv

LEMMA PrepareFailsMarks == ASSUME MarksInv, NEW l \in Load, PrepareFails(l) PROVE MarksInv'
<1>1. PICK c \in Control : mark' = Marked(c, "EM_EXECUCAO") /\ leftBy' = Left(c, "unprepared")
  BY DEF PrepareFails
<1>2. RunningIsLeft(mark', leftBy')
  BY <1>1, MarkedStill, MarkedHow DEF MarksInv
<1>3. ASSUME NEW d \in Control, leftBy'[d] = "loading" PROVE leftBy[d] = "loading"
  <2>1. IngestTypes /\ c # None
    BY NoneIsNone DEF MarksInv
  <2>2. d # c
    BY <1>1, <1>3, <2>1, LeftAs
  <2> QED BY <1>1, <1>3, <2>1, <2>2, LeftAs
<1>4. LoadingIsHad(leftBy', load')
  BY <1>3 DEF PrepareFails, MarksInv, LoadingIsHad
<1> QED BY <1>2, <1>4, PrepareFailsTypes DEF MarksInv, PrepareFails

\* The steps of a job that mark nothing.
LEMMA QuietMarks ==
  ASSUME MarksInv, NEW l \in Load,
         Start(l) \/ CopyToLake(l) \/ Recreate(l) \/ AppendStaging(l) \/ Upsert(l) \/ ClearStaging(l) \/ Exit(l)
  PROVE  MarksInv'
<1>1. IngestTypes /\ IngestTypes'
  BY StartTypes, CopyToLakeTypes, RecreateTypes, AppendStagingTypes, UpsertTypes, ClearStagingTypes, ExitTypes DEF MarksInv
<1>2. UNCHANGED <<mark, leftBy>>
  BY DEF Start, CopyToLake, Recreate, AppendStaging, Upsert, ClearStaging, Exit
<1>3. RunningIsLeft(mark', leftBy')
  BY <1>2 DEF MarksInv
<1>4. CASE Start(l)
  <2>1. /\ \A k \in Load \ {l} : load'[k] = load[k]
        /\ load'[l].step = "next" /\ load'[l].control = load[l].control /\ load[l].step = "start"
    BY <1>1, <1>4 DEF Start, At, IngestTypes, LoadRow
  <2> QED BY <1>1, <1>2, <1>3, <2>1, MarksStep DEF Working
<1>5. CASE Exit(l)
  <2>1. PICK step \in {"failed", "success"} : Proceed(l, step)
    BY <1>5 DEF Exit, Proceed
  <2>2. load[l].step = "next"
    BY <1>5 DEF Exit, At
  <2> QED BY <1>1, <1>2, <1>3, <2>1, <2>2, ProceedFacts, MarksStep DEF Working
<1>6. CASE CopyToLake(l) \/ Recreate(l) \/ AppendStaging(l) \/ Upsert(l) \/ ClearStaging(l)
  <2>1. PICK step \in Working : Proceed(l, step)
    BY <1>6 DEF CopyToLake, Recreate, AppendStaging, Upsert, ClearStaging, Working
  <2> QED BY <1>1, <1>2, <1>3, <2>1, ProceedFacts, MarksStep DEF Working
<1> QED BY <1>4, <1>5, <1>6

LEMMA ReadSourceMarks == ASSUME MarksInv, NEW l \in Load, ReadSource(l) PROVE MarksInv'
<1>1. IngestTypes /\ IngestTypes' /\ load[l].todo # <<>> /\ Now(l) \in Control
  BY ReadSourceTypes, RowTypes DEF MarksInv, ReadSource
<1>2. /\ \A k \in Load \ {l} : load'[k] = load[k]
      /\ load'[l].step \in {"copy", "recreate"} /\ load'[l].control = load[l].control
      /\ load'[l].todo = load[l].todo /\ load[l].step = "next"
  BY <1>1 DEF ReadSource, At, IngestTypes, LoadRow
<1>3. RunningIsLeft(mark', leftBy')
  BY <1>1, MarkedStill, MarkedHow DEF ReadSource, MarksInv
<1>4. \A c \in Control : leftBy'[c] = "loading" => leftBy[c] = "loading" \/ Has(load'[l], c)
  <2>1. CASE Now(l) \in ToMySQL
    <3>1. leftBy' = Left(Now(l), "loading")
      BY <2>1 DEF ReadSource
    <3>2. Has(load'[l], Now(l))
      BY <1>2, <2>1 DEF Has, Now, Working
    <3> QED BY <1>1, <3>1, <3>2, LeftAs
  <2>2. CASE Now(l) \notin ToMySQL
    BY <2>2 DEF ReadSource
  <2> QED BY <2>1, <2>2
<1> QED BY <1>1, <1>2, <1>3, <1>4, MarksStep DEF Working

LEMMA EndedMarks ==
  ASSUME MarksInv, NEW l \in Load, Summarize(l) \/ WriteFails(l)
  PROVE  MarksInv'
<1>1. IngestTypes /\ IngestTypes' /\ load[l].todo # <<>> /\ Now(l) \in Control
  BY SummarizeTypes, WriteFailsTypes, RowTypes DEF MarksInv, Summarize, WriteFails, At, Working
<1>2. \E summary, failed : NextControl(l, summary, failed)
  BY DEF Summarize, WriteFails
<1>3. PICK ending \in {"SUCESSO", "ERRO"} : mark' = Marked(Now(l), ending) /\ leftBy' = Left(Now(l), "ended")
  BY DEF Summarize, WriteFails
<1>4. RunningIsLeft(mark', leftBy')
  BY <1>1, <1>3, MarkedStill, MarkedHow DEF MarksInv
<1>5. leftBy'[Now(l)] # "loading" /\ \A c \in Control : leftBy'[c] = "loading" => leftBy[c] = "loading"
  BY <1>1, <1>3, LeftAs, NoneIsNone
<1> QED BY <1>1, <1>2, <1>4, <1>5, NextFacts, MarksStep

LEMMA ReadFailsMarks == ASSUME MarksInv, NEW l \in Load, ReadFails(l) PROVE MarksInv'
<1>1. IngestTypes /\ IngestTypes' /\ Now(l) \in Control /\ load[l].step = "next"
  BY ReadFailsTypes, RowTypes DEF MarksInv, ReadFails, At
<1>2. /\ \A k \in Load \ {l} : load'[k] = load[k]
      /\ load'[l].step # "off" /\ load'[l].control = load[l].control
  <2>1. (\E summary, failed : NextControl(l, summary, failed)) \/ Proceed(l, "failed")
    BY DEF ReadFails
  <2> QED BY <1>1, <2>1, NextFacts, ProceedFacts
<1>3. RunningIsLeft(mark', leftBy')
  BY <1>1, MarkedStill, MarkedHow DEF ReadFails, MarksInv
<1>4. \A c \in Control : leftBy'[c] = "loading" => leftBy[c] = "loading"
  <2>1. leftBy' = Left(Now(l), "ended") \/ UNCHANGED leftBy
    BY DEF ReadFails
  <2> QED BY <1>1, <2>1, LeftAs, NoneIsNone
<1> QED BY <1>1, <1>2, <1>3, <1>4, MarksStep DEF Working

LEMMA ControlUnreachableMarks ==
  ASSUME MarksInv, NEW l \in Load, ControlUnreachable(l) PROVE MarksInv'
<1>1. IngestTypes /\ IngestTypes' /\ load[l].todo # <<>> /\ Now(l) \in Control
  BY ControlUnreachableTypes, RowTypes DEF MarksInv, ControlUnreachable, At, Working
<1>2. \E summary, failed : NextControl(l, summary, failed)
  BY DEF ControlUnreachable
<1>3. \/ Now(l) \in ToTargets /\ UNCHANGED <<mark, leftBy>>
      \/ mark' = Marked(Now(l), "ERRO") /\ leftBy' = Left(Now(l), "ended")
      \/ UNCHANGED mark /\ leftBy' = Left(Now(l), "unreported")
  BY DEF ControlUnreachable
<1>4. RunningIsLeft(mark', leftBy')
  <2>1. CASE UNCHANGED <<mark, leftBy>>
    BY <2>1 DEF MarksInv
  <2>2. CASE mark' = Marked(Now(l), "ERRO") /\ leftBy' = Left(Now(l), "ended")
    BY <1>1, <2>2, MarkedStill, MarkedHow DEF MarksInv
  <2>3. CASE UNCHANGED mark /\ leftBy' = Left(Now(l), "unreported")
    BY <1>1, <2>3, MarkedStill, MarkedHow DEF MarksInv
  <2> QED BY <1>3, <2>1, <2>2, <2>3
<1>5. /\ leftBy'[Now(l)] # "loading" \/ Now(l) \in ToTargets
      /\ \A c \in Control : leftBy'[c] = "loading" => leftBy[c] = "loading"
  BY <1>1, <1>3, LeftAs, NoneIsNone
<1> QED BY <1>1, <1>2, <1>4, <1>5, NextFacts, MarksStep

LEMMA KillMarks == ASSUME MarksInv, NEW l \in Load, Kill(l) \/ Die(l) PROVE MarksInv'
<1>1. IngestTypes /\ IngestTypes'
  BY KillTypes DEF MarksInv
<1>2. PICK how \in {"cancelled", "timeout", "failed"} : Proceed(l, how)
  BY DEF Kill, Die
<1>3. CASE load[l].todo = <<>>
  <2>1. UNCHANGED <<mark, leftBy>> /\ load[l].step \notin Working
    BY <1>1, <1>3, RowTypes DEF Kill, Die
  <2>2. RunningIsLeft(mark', leftBy')
    BY <2>1 DEF MarksInv
  <2> QED BY <1>1, <1>2, <2>1, <2>2, ProceedFacts, MarksStep
<1>4. CASE load[l].todo # <<>>
  <2>1. Now(l) \in Control /\ leftBy' = Left(Now(l), "killed") /\ UNCHANGED mark
    BY <1>1, <1>4, RowTypes DEF Kill, Die
  <2>2. RunningIsLeft(mark', leftBy')
    BY <2>1, MarkedStill, MarkedHow DEF MarksInv
  <2>3. leftBy'[Now(l)] # "loading" /\ \A c \in Control : leftBy'[c] = "loading" => leftBy[c] = "loading"
    BY <1>1, <2>1, LeftAs, NoneIsNone
  <2> QED BY <1>1, <1>2, <2>2, <2>3, ProceedFacts, MarksStep
<1> QED BY <1>3, <1>4

LEMMA OrphanMarks == ASSUME MarksInv, NEW l \in Load, Orphan(l) PROVE MarksInv'
<1>1. IngestTypes /\ IngestTypes' /\ load[l].control \in Control \union {None}
  BY OrphanTypes, RowTypes DEF MarksInv
<1>2. /\ \A k \in Load \ {l} : load'[k] = load[k]
      /\ load'[l].step = load[l].step /\ load'[l].todo = load[l].todo /\ load'[l].step # "off"
  BY <1>1 DEF Orphan, IngestTypes, LoadRow
<1>3. UNCHANGED mark /\ leftBy' = Left(load[l].control, "orphaned")
  BY DEF Orphan
<1>4. RunningIsLeft(mark', leftBy')
  BY <1>1, <1>3, MarkedStill, MarkedHow DEF MarksInv
<1>5. ASSUME NEW c \in Control, leftBy'[c] = "loading"
      PROVE  leftBy[c] = "loading" /\ c # load[l].control
  BY <1>1, <1>3, <1>5, LeftAs, NoneIsNone
<1>6. LoadingIsHad(leftBy', load')
  <2>1. ASSUME NEW c \in Control, leftBy'[c] = "loading"
        PROVE  Has(load'[l], c) \/ (leftBy[c] = "loading" /\ ~Has(load[l], c))
    <3>1. leftBy[c] = "loading" /\ c # load[l].control
      BY <1>5, <2>1
    <3>2. Has(load[l], c) => Has(load'[l], c)
      BY <1>2, <3>1 DEF Has
    <3> QED BY <3>1, <3>2
  <2>2. LoadingIsHad(leftBy, load)
    BY DEF MarksInv
  <2> QED BY <1>2, <2>1, <2>2, HadStill
<1>7. NoneWhenOff(load')
  BY <1>2 DEF NoneWhenOff, MarksInv
<1> QED BY <1>1, <1>4, <1>6, <1>7 DEF MarksInv

LEMMA WriteBackMarks == ASSUME MarksInv, NEW l \in Load, WriteBack(l) PROVE MarksInv'
<1>1. IngestTypes /\ IngestTypes' /\ load[l].control \in Control \union {None} /\ load[l].step \in Ends
  BY WriteBackTypes, RowTypes DEF MarksInv, WriteBack
<1> DEFINE c == load[l].control
           how == IF At(l, "cancelled") THEN "cancelled" ELSE "ended"
<1>2. /\ \A k \in Load \ {l} : load'[k] = load[k]
      /\ load'[l].control = None
  BY <1>1 DEF WriteBack, IngestTypes, NoLoad
<1>3. CASE c = None
  <2>1. UNCHANGED <<mark, leftBy>>
    BY <1>3 DEF WriteBack
  <2>2. \A d \in Control : ~Has(load[l], d)
    BY <1>1, <1>3, NoneIsNone DEF Has, Ends, Working
  <2>3. LoadingIsHad(leftBy', load')
    BY <1>2, <2>1, <2>2, HadStill DEF MarksInv
  <2> QED BY <1>1, <1>2, <2>1, <2>3 DEF MarksInv, NoneWhenOff
<1>4. CASE c # None
  <2>1. c \in Control /\ mark[c] \in Marks
    BY <1>1, <1>4 DEF IngestTypes
  <2>2. mark' = Marked(c, ControlStatus(load[l].step, mark[c])) /\ leftBy' = Left(c, how)
    BY <1>4 DEF WriteBack
  <2>3. ControlStatus(load[l].step, mark[c]) \in Marks
    BY <1>1, <2>1 DEF ControlStatus, Ends, Marks
  <2>4. ControlStatus(load[l].step, mark[c]) = "EM_EXECUCAO" => how # "ended"
    BY <1>1 DEF ControlStatus, Ends, At
  <2>5. how \in Ways /\ how # "loading"
    BY DEF Ways
  <2> HIDE DEF how
  <2>6. RunningIsLeft(mark', leftBy')
    BY <1>1, <2>2, <2>3, <2>4, <2>5, MarkedStill DEF MarksInv
  <2>7. ASSUME NEW d \in Control, leftBy'[d] = "loading"
        PROVE  leftBy[d] = "loading" /\ ~Has(load[l], d)
    BY <1>1, <1>4, <2>2, <2>5, <2>7, LeftAs DEF Has, Ends, Working
  <2>8. LoadingIsHad(leftBy', load')
    BY <1>2, <2>7, HadStill DEF MarksInv
  <2> QED BY <1>1, <1>2, <2>6, <2>8 DEF MarksInv, NoneWhenOff
<1> QED BY <1>3, <1>4

LEMMA WriteBackFailsMarks == ASSUME MarksInv, NEW l \in Load, WriteBackFails(l) PROVE MarksInv'
<1>1. IngestTypes /\ IngestTypes' /\ load[l].control \in Control /\ load[l].step \in Ends
  BY WriteBackFailsTypes, RowTypes DEF MarksInv, WriteBackFails
<1>2. /\ \A k \in Load \ {l} : load'[k] = load[k]
      /\ load'[l].control = None
  BY <1>1 DEF WriteBackFails, IngestTypes, NoLoad
<1>3. UNCHANGED mark /\ leftBy' = Left(load[l].control, "unwritten")
  BY DEF WriteBackFails
<1>4. RunningIsLeft(mark', leftBy')
  BY <1>1, <1>3, MarkedStill, MarkedHow DEF MarksInv
<1>5. ASSUME NEW d \in Control, leftBy'[d] = "loading"
      PROVE  leftBy[d] = "loading" /\ ~Has(load[l], d)
  BY <1>1, <1>3, <1>5, LeftAs, NoneIsNone DEF Has, Ends, Working
<1>6. LoadingIsHad(leftBy', load')
  BY <1>2, <1>5, HadStill DEF MarksInv
<1> QED BY <1>1, <1>2, <1>4, <1>6 DEF MarksInv, NoneWhenOff

LEMMA MarksKept == ASSUME MarksInv, [IngestNext]_ingestVars PROVE MarksInv'
<1>1. CASE UNCHANGED ingestVars
  <2>1. IngestTypes'
    BY <1>1, LoadTypesKept DEF MarksInv
  <2> QED BY <1>1, <2>1 DEF ingestVars, MarksInv
<1>2. ASSUME NEW l \in Load, LoadStep(l) PROVE MarksInv'
  BY <1>2, PrepareMarks, PrepareFailsMarks, QuietMarks, ReadSourceMarks, EndedMarks, ReadFailsMarks,
     ControlUnreachableMarks, KillMarks, OrphanMarks, WriteBackMarks, WriteBackFailsMarks DEF LoadStep
<1>3. ASSUME NEW c \in Control, Arrive(c) \/ Reset(c) PROVE MarksInv'
  <2>1. UNCHANGED <<mark, leftBy, load>>
    BY <1>3 DEF Arrive, Reset
  <2> QED BY <1>3, <2>1, ArriveTypes, ResetTypes DEF MarksInv
<1> QED BY <1>1, <1>2, <1>3 DEF IngestNext

\* A row that a control is in loads it.
LEMMA HadIsLoading == MarksInv => MarkedOnlyByAccident
<1>1. SUFFICES ASSUME MarksInv, NEW c \in Control, mark[c] = "EM_EXECUCAO", ~Loading(c)
               PROVE  leftBy[c] \in {"killed", "cancelled", "orphaned", "unprepared", "unreported", "unwritten"}
  BY DEF MarkedOnlyByAccident
<1>2. leftBy[c] \in Ways /\ leftBy[c] # "ended"
  BY <1>1 DEF MarksInv, RunningIsLeft, IngestTypes
<1>3. leftBy[c] # "loading"
  <2>1. SUFFICES ASSUME NEW l \in Load, Has(load[l], c) PROVE FALSE
    BY <1>1 DEF MarksInv, LoadingIsHad
  <2>2. load[l].control # c /\ c \notin Range(load[l].todo)
    BY <1>1 DEF Loading
  <2>3. load[l].todo \in Seq(Control) /\ load[l].todo # <<>> /\ Head(load[l].todo) = c
    BY <1>1, <2>1, <2>2, RowTypes DEF Has, MarksInv
  <2>4. \A s \in Seq(Control) : s # <<>> => Head(s) \in Range(s)
    BY DEF Range
  <2> QED BY <2>2, <2>3, <2>4
<1> QED BY <1>2, <1>3 DEF Ways

\* A control left EM_EXECUCAO while no execution has it was left so by a cancelled execution, a
\* worker or a job that died or was killed, a preparation or a write-back that failed, or a job that
\* could not reach the control table (_update_control_from_execution settles every other end), for
\* any number of executions at once.
THEOREM MarksAreSettled == IngestSpec => []MarkedOnlyByAccident
<1>1. IngestInit => MarksInv
  BY InitMarks
<1>2. MarksInv /\ [IngestNext]_ingestVars => MarksInv'
  BY MarksKept
<1> QED BY <1>1, <1>2, HadIsLoading, PTL DEF IngestSpec

-----------------------------------------------------------------------------
(* No row is left behind, when no two executions use one staging table     *)
(* at a time: what one read is the rows between the watermark it read at    *)
(* and the latest of them, and they pass from table to table with its      *)
(* steps, in a staging table that the others leave alone.  Nothing is said  *)
(* of a control that went astray.                                          *)

\* Every row up to an instant, which is that of a row, is in the destinations of its control.
Reached(n, c, rows, wrote, copied) ==
  n \in rows \union {0} /\ \A r \in rows : r <= n => r \in wrote /\ (c \in ToTargets => r \in copied)

BatchOK(row, c, rows, wrote, copied, staged) ==
  /\ row.batch \subseteq rows /\ \A b \in row.batch : b > row.read[c]
  /\ \A r \in rows \ row.batch : r > row.read[c] => \A b \in row.batch : b < r
  /\ c \in ToTargets /\ row.step # "copy" => row.batch \subseteq copied
  /\ row.step = "upsert" => row.batch \subseteq staged
  /\ row.step \in {"clear", "report"} => row.batch \subseteq wrote

ReadsOK(row, a, s, t, k) == \A c \in Control \ a : Reached(row.read[c], c, s[c], t[c], k[c])
SummaryOK(row, a, s, t, k) ==
  \A c \in Control \ a : row.about = c => Reached(row.summary, c, s[c], t[c], k[c])
WorkOK(row, s, t, k, g) ==
  row.step \in Working =>
    LET c == Head(row.todo) IN BatchOK(row, c, s[c], t[c], k[c], g[c])
RowOK(row, a, s, t, k, g) == ReadsOK(row, a, s, t, k) /\ SummaryOK(row, a, s, t, k) /\ WorkOK(row, s, t, k, g)
MarkedRowsIn(w, a, s, t, k) == \A c \in Control \ a : Reached(w[c], c, s[c], t[c], k[c])

RowsInv ==
  /\ IngestTypes
  /\ MarkedRowsIn(watermark, astray, source, target, lake)
  /\ \A l \in Load : RowOK(load[l], astray, source, target, lake, staging)

LEMMA ReachedGrows ==
  ASSUME NEW c, NEW rows, NEW n, NEW wrote, NEW copied, NEW more \in SUBSET wrote, NEW many \in SUBSET copied,
         Reached(n, c, rows, more, many)
  PROVE  Reached(n, c, rows, wrote, copied)
BY DEF Reached

\* What was reached stays so when rows are written and copied, and controls go astray.
LEMMA RowsReachedStay ==
  ASSUME NEW t, NEW k, NEW s, NEW more, NEW many, NEW w, NEW row, NEW a, NEW b, a \subseteq b,
         \A c \in Control : t[c] \subseteq more[c] /\ k[c] \subseteq many[c]
  PROVE  /\ MarkedRowsIn(w, a, s, t, k) => MarkedRowsIn(w, b, s, more, many)
         /\ ReadsOK(row, a, s, t, k) => ReadsOK(row, b, s, more, many)
         /\ SummaryOK(row, a, s, t, k) => SummaryOK(row, b, s, more, many)
<1>1. \A c \in Control : \A n : Reached(n, c, s[c], t[c], k[c]) => Reached(n, c, s[c], more[c], many[c])
  BY DEF Reached
<1>2. MarkedRowsIn(w, a, s, t, k) => MarkedRowsIn(w, b, s, more, many)
  BY <1>1 DEF MarkedRowsIn
<1>3. ReadsOK(row, a, s, t, k) => ReadsOK(row, b, s, more, many)
  BY <1>1 DEF ReadsOK
<1>4. SummaryOK(row, a, s, t, k) => SummaryOK(row, b, s, more, many)
  BY <1>1 DEF SummaryOK
<1> QED BY <1>2, <1>3, <1>4

\* An instant that is not after one that is reached is reached.
LEMMA ReachedBefore ==
  ASSUME IngestTypes, NEW c \in Control, NEW n, Reached(n, c, source[c], target[c], lake[c]),
         NEW m \in Nat, m <= n
  PROVE  Reached(m, c, source[c], target[c], lake[c])
<1>1. PICK k \in Nat : source[c] = 1..k
  BY DEF IngestTypes
<1>2. n \in 0..k
  BY <1>1 DEF Reached
<1>3. m \in source[c] \union {0}
  BY <1>1, <1>2
<1>4. \A r \in source[c] : r <= m => r <= n
  BY <1>1, <1>2
<1> QED BY <1>3, <1>4 DEF Reached

LEMMA ReachedNone ==
  ASSUME IngestTypes, NEW c \in Control
  PROVE  Reached(0, c, source[c], target[c], lake[c])
<1>1. PICK k \in Nat : source[c] = 1..k
  BY DEF IngestTypes
<1>2. \A r \in source[c] : ~(r <= 0)
  BY <1>1
<1> QED BY <1>2 DEF Reached

\* The load of a table that is over reached the latest row it read.
LEMMA BatchReached ==
  ASSUME RowsInv, NEW l \in Load, load[l].step = "report"
  PROVE  /\ Now(l) \in Control /\ LatestRead(l) \in Nat
         /\ Now(l) \notin astray => Reached(load[l].read[Now(l)], Now(l), source[Now(l)], target[Now(l)], lake[Now(l)])
         /\ Now(l) \notin astray => Reached(LatestRead(l), Now(l), source[Now(l)], target[Now(l)], lake[Now(l)])
<1> DEFINE c == Now(l)
           b == load[l].batch
<1>1. c \in Control /\ b \in FewRows /\ load[l].read \in [Control -> Nat]
  BY RowTypes DEF RowsInv, Working
<1>2. c \notin astray => Reached(load[l].read[c], c, source[c], target[c], lake[c])
  BY <1>1 DEF RowsInv, RowOK, ReadsOK
<1>3. BatchOK(load[l], c, source[c], target[c], lake[c], staging[c])
  BY DEF RowsInv, RowOK, WorkOK, Working, Now
<1>4. LatestRead(l) = Latest(b) /\ Latest(b) \in Nat
  BY <1>1, LatestRow DEF LatestRead
<1>5. CASE b = {}
  BY <1>1, <1>2, <1>4, <1>5, LatestRow, ReachedNone DEF RowsInv
<1>6. CASE b # {}
  <2>1. Latest(b) \in b /\ \A r \in b : r <= Latest(b)
    BY <1>1, <1>6, LatestRow
  <2>2. /\ b \subseteq source[c] /\ b \subseteq target[c] /\ (c \in ToTargets => b \subseteq lake[c])
        /\ \A r \in source[c] \ b : r > load[l].read[c] => \A q \in b : q < r
    BY <1>3 DEF BatchOK
  <2>3. ASSUME NEW r \in source[c], r <= Latest(b)
        PROVE  c \notin astray => r \in target[c] /\ (c \in ToTargets => r \in lake[c])
    <3>1. CASE r \in b
      BY <2>2, <3>1
    <3>2. CASE r \notin b
      <4>1. r \in Nat /\ load[l].read[c] \in Nat
        BY <1>1 DEF RowsInv, IngestTypes, Tables, FewRows
      <4>2. r <= load[l].read[c]
        BY <1>4, <2>1, <2>2, <2>3, <3>2, <4>1
      <4> QED BY <1>2, <4>2 DEF Reached
    <3> QED BY <3>1, <3>2
  <2> QED BY <1>1, <1>2, <1>4, <2>1, <2>2, <2>3 DEF Reached
<1> QED BY <1>1, <1>2, <1>4, <1>5, <1>6

\* Where an execution uses the staging table of its control.
Staged == {"recreate", "append", "upsert", "clear"}
\* No two executions use one staging table at a time.
Apart == \A k, l \in Load :
  k # l /\ load[k].step \in Staged /\ load[l].step \in Staged => Now(k) # Now(l)

\* What a step of an execution leaves alone of the others.
Others(l) == \A k \in Load \ {l} :
  load'[k] = load[k] /\ (load[k].step \in Staged => staging'[Now(k)] = staging[Now(k)])

\* It writes no staging table, or that of the table it is at work on.
OwnStaging(l) ==
  staging' = staging \/ (Apart /\ load[l].step \in Staged /\ \E rows : staging' = [staging EXCEPT ![Now(l)] = rows])

LEMMA OthersAlone ==
  ASSUME IngestTypes, NEW l \in Load, \A k \in Load \ {l} : load'[k] = load[k], OwnStaging(l)
  PROVE  Others(l)
<1>1. ASSUME NEW k \in Load \ {l}, load[k].step \in Staged PROVE staging'[Now(k)] = staging[Now(k)]
  <2>1. CASE staging' = staging
    BY <2>1
  <2>2. CASE Apart /\ load[l].step \in Staged /\ \E rows : staging' = [staging EXCEPT ![Now(l)] = rows]
    <3>1. Now(k) # Now(l) /\ Now(k) \in Control
      BY <1>1, <2>2, RowTypes DEF Apart, Staged, Working
    <3> QED BY <2>2, <3>1 DEF IngestTypes, Tables
  <2> QED BY <2>1, <2>2 DEF OwnStaging
<1> QED BY <1>1 DEF Others

\* The row written keeps the invariant: tables grow, and the others find in their staging what they put there.
LEMMA RowsStep ==
  ASSUME RowsInv, IngestTypes', UNCHANGED source, astray \subseteq astray', NEW l \in Load, Others(l),
         \A c \in Control : target[c] \subseteq target'[c] /\ lake[c] \subseteq lake'[c],
         MarkedRowsIn(watermark', astray', source', target', lake'),
         RowOK(load'[l], astray', source', target', lake', staging')
  PROVE  RowsInv'
<1>1. ASSUME NEW k \in Load \ {l} PROVE RowOK(load'[k], astray', source', target', lake', staging')
  <2>1. load'[k] = load[k] /\ RowOK(load[k], astray, source, target, lake, staging)
    BY DEF Others, RowsInv
  <2>2. ReadsOK(load[k], astray', source, target', lake') /\ SummaryOK(load[k], astray', source, target', lake')
    BY <2>1, RowsReachedStay DEF RowsInv, RowOK
  <2>3. WorkOK(load[k], source, target', lake', staging')
    <3>1. SUFFICES ASSUME load[k].step \in Working
                   PROVE  BatchOK(load[k], Now(k), source[Now(k)], target'[Now(k)], lake'[Now(k)], staging'[Now(k)])
      BY DEF WorkOK, Now
    <3>2. Now(k) \in Control /\ (load[k].step = "upsert" => staging'[Now(k)] = staging[Now(k)])
      BY <3>1, RowTypes DEF Others, RowsInv, Staged
    <3>3. BatchOK(load[k], Now(k), source[Now(k)], target[Now(k)], lake[Now(k)], staging[Now(k)])
      BY <2>1, <3>1 DEF RowOK, WorkOK, Now
    <3> QED BY <3>2, <3>3 DEF BatchOK
  <2> QED BY <2>1, <2>2, <2>3 DEF RowOK
<1> QED BY <1>1 DEF RowsInv

\* The marks of the control rows stay reached, unless the watermark moves.
LEMMA WatermarksStay ==
  ASSUME RowsInv, UNCHANGED <<source, watermark, astray>>,
         \A c \in Control : target[c] \subseteq target'[c] /\ lake[c] \subseteq lake'[c]
  PROVE  MarkedRowsIn(watermark', astray', source', target', lake')
BY RowsReachedStay DEF RowsInv

\* A step of the job of an execution: what it read stays as it was.
LEMMA ProceedRows ==
  ASSUME RowsInv, IngestTypes', NEW l \in Load, NEW step, Proceed(l, step),
         OwnStaging(l), UNCHANGED <<source, watermark, astray>>,
         \A c \in Control : target[c] \subseteq target'[c] /\ lake[c] \subseteq lake'[c],
         step \in Working =>
           BatchOK(load'[l], Now(l), source[Now(l)], target'[Now(l)], lake'[Now(l)], staging'[Now(l)])
  PROVE  RowsInv'
<1>1. MarkedRowsIn(watermark', astray', source', target', lake')
  BY WatermarksStay
<1>2. /\ load'[l].step = step /\ load'[l].todo = load[l].todo /\ load'[l].control = load[l].control
      /\ load'[l].read = load[l].read /\ load'[l].summary = load[l].summary
      /\ load'[l].about = load[l].about
  BY ProceedFacts DEF RowsInv
<1>3. ReadsOK(load[l], astray, source, target', lake') /\ SummaryOK(load[l], astray, source, target', lake')
  BY RowsReachedStay DEF RowsInv, RowOK
<1>4. ReadsOK(load'[l], astray', source', target', lake') /\ SummaryOK(load'[l], astray', source', target', lake')
  BY <1>2, <1>3 DEF ReadsOK, SummaryOK
<1>5. WorkOK(load'[l], source', target', lake', staging')
  BY <1>2 DEF WorkOK, Now
<1>6. Others(l)
  BY ProceedFacts, OthersAlone DEF RowsInv
<1> QED BY <1>1, <1>4, <1>5, <1>6, RowsStep DEF RowOK

\* A control is over: the summary is an instant that is reached.
LEMMA NextRows ==
  ASSUME RowsInv, IngestTypes', NEW l \in Load, NEW summary, NEW failed,
         load[l].todo # <<>>, NextControl(l, summary, failed),
         Now(l) \notin astray => Reached(summary, Now(l), source[Now(l)], target[Now(l)], lake[Now(l)]),
         UNCHANGED <<source, target, lake, staging, astray>>,
         MarkedRowsIn(watermark', astray', source', target', lake')
  PROVE  RowsInv'
<1>1. /\ load'[l].step = "next" /\ load'[l].todo = Tail(load[l].todo)
      /\ load'[l].control = load[l].control /\ load'[l].read = load[l].read
      /\ load'[l].summary = summary /\ load'[l].about = Now(l)
  BY NextFacts DEF RowsInv
<1>2. ReadsOK(load'[l], astray', source', target', lake')
  BY <1>1 DEF ReadsOK, RowsInv, RowOK
<1>3. SummaryOK(load'[l], astray', source', target', lake')
  BY <1>1 DEF SummaryOK
<1>4. WorkOK(load'[l], source', target', lake', staging')
  BY <1>1 DEF WorkOK, Working
<1>5. Others(l)
  BY NextFacts, OthersAlone DEF RowsInv, OwnStaging
<1> QED BY <1>2, <1>3, <1>4, <1>5, RowsStep DEF RowOK

LEMMA InitRows == ASSUME IngestInit PROVE RowsInv
<1>1. IngestTypes
  BY InitTypes
<1>2. \A c \in Control : Reached(0, c, source[c], target[c], lake[c])
  BY <1>1, ReachedNone
<1>3. MarkedRowsIn(watermark, astray, source, target, lake)
  BY <1>2 DEF MarkedRowsIn, IngestInit
<1>4. ASSUME NEW l \in Load PROVE RowOK(load[l], astray, source, target, lake, staging)
  <2>1. load[l] = NoLoad
    BY DEF IngestInit
  <2> QED BY <1>2, <2>1, NoneIsNone DEF RowOK, ReadsOK, SummaryOK, WorkOK, NoLoad, Working
<1> QED BY <1>1, <1>3, <1>4 DEF RowsInv

LEMMA PrepareRows == ASSUME RowsInv, NEW l \in Load, Prepare(l) PROVE RowsInv'
<1>1. IngestTypes /\ IngestTypes'
  BY PrepareTypes DEF RowsInv
<1>2. PICK selected \in Selections, own \in Control \union {None} :
        load' = [load EXCEPT ![l] =
          [NoLoad EXCEPT !.step = "start", !.todo = selected, !.control = Primary(selected, own),
                         !.read = ReadsAt(l, selected)]]
  BY DEF Prepare
<1>3. /\ load'[l].step = "start" /\ load'[l].todo = selected /\ load'[l].about = None
      /\ load'[l].read = ReadsAt(l, selected)
  BY <1>1, <1>2 DEF IngestTypes, NoLoad
<1>4. UNCHANGED <<source, lake, target, staging, watermark, astray>>
  BY DEF Prepare, tables
<1>5. ReadsOK(load'[l], astray', source', target', lake')
  BY <1>3, <1>4 DEF ReadsOK, ReadsAt, RowsInv, RowOK, MarkedRowsIn
<1>6. SummaryOK(load'[l], astray', source', target', lake')
  BY <1>3, NoneIsNone DEF SummaryOK
<1>7. WorkOK(load'[l], source', target', lake', staging')
  BY <1>3 DEF WorkOK, Working
<1>8. MarkedRowsIn(watermark', astray', source', target', lake')
  BY <1>4 DEF RowsInv
<1>9. Others(l)
  BY <1>1, <1>2, <1>4, OthersAlone DEF OwnStaging, IngestTypes
<1> QED BY <1>1, <1>4, <1>5, <1>6, <1>7, <1>8, <1>9, RowsStep DEF RowOK

LEMMA StartRows == ASSUME RowsInv, NEW l \in Load, Start(l) PROVE RowsInv'
<1> DEFINE mine == SelectSeq(load[l].todo, LAMBDA c : c \in ToMySQL)
<1>1. IngestTypes /\ IngestTypes'
  BY StartTypes DEF RowsInv
<1>2. load' = [load EXCEPT ![l].step = "next", ![l].read = ReadsAt(l, mine)]
  BY DEF Start
<1> HIDE DEF mine
<1>3. /\ load'[l].step = "next" /\ load'[l].todo = load[l].todo /\ load'[l].control = load[l].control
      /\ load'[l].read = ReadsAt(l, mine) /\ load'[l].summary = load[l].summary
      /\ load'[l].about = load[l].about
  BY <1>1, <1>2 DEF IngestTypes, LoadRow
<1>4. UNCHANGED <<source, lake, target, staging, watermark, astray>>
  BY DEF Start, tables
<1>5. ReadsOK(load'[l], astray', source', target', lake')
  BY <1>3, <1>4 DEF ReadsOK, ReadsAt, RowsInv, RowOK, MarkedRowsIn
<1>6. SummaryOK(load'[l], astray', source', target', lake')
  BY <1>3, <1>4 DEF SummaryOK, RowsInv, RowOK
<1>7. WorkOK(load'[l], source', target', lake', staging')
  BY <1>3 DEF WorkOK, Working
<1>8. MarkedRowsIn(watermark', astray', source', target', lake')
  BY <1>4 DEF RowsInv
<1>9. Others(l)
  BY <1>1, <1>2, <1>4, OthersAlone DEF OwnStaging, IngestTypes
<1> QED BY <1>1, <1>4, <1>5, <1>6, <1>7, <1>8, <1>9, RowsStep DEF RowOK

LEMMA ReadSourceRows == ASSUME RowsInv, NEW l \in Load, ReadSource(l) PROVE RowsInv'
<1> DEFINE c == Now(l)
<1>1. IngestTypes /\ IngestTypes' /\ c \in Control
  BY ReadSourceTypes, RowTypes DEF RowsInv, ReadSource
<1>2. /\ load'[l].step \in {"copy", "recreate"} /\ (c \in ToTargets => load'[l].step = "copy")
      /\ load'[l].todo = load[l].todo /\ load'[l].control = load[l].control
      /\ load'[l].read = load[l].read /\ load'[l].batch = Query(c, load[l].read[c])
      /\ load'[l].summary = load[l].summary
      /\ load'[l].about = load[l].about
  BY <1>1 DEF ReadSource, IngestTypes, LoadRow
<1>3. UNCHANGED <<source, lake, target, staging, watermark, astray>>
  BY DEF ReadSource, tables
<1>4. ReadsOK(load'[l], astray', source', target', lake') /\ SummaryOK(load'[l], astray', source', target', lake')
  BY <1>2, <1>3 DEF ReadsOK, SummaryOK, RowsInv, RowOK
<1>5. BatchOK(load'[l], c, source[c], target[c], lake[c], staging[c])
  BY <1>2 DEF BatchOK, Query
<1>6. WorkOK(load'[l], source', target', lake', staging')
  BY <1>2, <1>3, <1>5 DEF WorkOK, Now
<1>7. MarkedRowsIn(watermark', astray', source', target', lake')
  BY <1>3 DEF RowsInv
<1>8. Others(l)
  <2>1. \A k \in Load \ {l} : load'[k] = load[k]
    BY <1>1 DEF ReadSource, IngestTypes
  <2> QED BY <1>1, <1>3, <2>1, OthersAlone DEF OwnStaging
<1> QED BY <1>1, <1>3, <1>4, <1>6, <1>7, <1>8, RowsStep DEF RowOK

LEMMA WorkedOn ==
  ASSUME RowsInv, NEW l \in Load, load[l].step \in Working
  PROVE  /\ Now(l) \in Control /\ load[l].batch \in FewRows /\ load[l].todo # <<>>
         /\ load[l].read[Now(l)] \in Nat
         /\ BatchOK(load[l], Now(l), source[Now(l)], target[Now(l)], lake[Now(l)], staging[Now(l)])
BY RowTypes DEF RowsInv, RowOK, WorkOK, Now

LEMMA CopyToLakeRows == ASSUME RowsInv, NEW l \in Load, CopyToLake(l) PROVE RowsInv'
<1> DEFINE c == Now(l)
<1>1. IngestTypes /\ IngestTypes' /\ load[l].step = "copy" /\ load[l].step \in Working
  BY CopyToLakeTypes DEF RowsInv, CopyToLake, At, Working
<1>2. /\ c \in Control /\ load[l].batch \in FewRows
      /\ BatchOK(load[l], c, source[c], target[c], lake[c], staging[c])
  BY <1>1, WorkedOn
<1>3. PICK step \in {"report", "recreate"} : Proceed(l, step) /\ (step = "report" => load[l].batch = {})
  BY DEF CopyToLake
<1>4. load'[l].step = step /\ load'[l].batch = load[l].batch /\ load'[l].read = load[l].read
  BY <1>1, <1>3, ProceedFacts
<1>5. UNCHANGED <<source, target, staging, watermark, astray>>
      /\ lake' = [lake EXCEPT ![c] = @ \union load[l].batch]
  BY DEF CopyToLake
<1>6. lake'[c] = lake[c] \union load[l].batch /\ \A d \in Control : lake[d] \subseteq lake'[d]
  BY <1>1, <1>2, <1>5 DEF IngestTypes, Tables
<1>7. BatchOK(load'[l], c, source[c], target'[c], lake'[c], staging'[c])
  BY <1>2, <1>3, <1>4, <1>6 DEF BatchOK
<1> QED BY <1>1, <1>3, <1>5, <1>6, <1>7, ProceedRows DEF OwnStaging

LEMMA RecreateRows == ASSUME Apart, RowsInv, NEW l \in Load, Recreate(l) PROVE RowsInv'
<1> DEFINE c == Now(l)
<1>1. IngestTypes /\ IngestTypes' /\ load[l].step = "recreate" /\ load[l].step \in Working
  BY RecreateTypes DEF RowsInv, Recreate, At, Working
<1>2. BatchOK(load[l], c, source[c], target[c], lake[c], staging[c])
  BY <1>1, WorkedOn
<1>3. PICK step \in {"report", "append"} : Proceed(l, step) /\ (step = "report" => load[l].batch = {})
  BY DEF Recreate
<1>4. load'[l].step = step /\ load'[l].batch = load[l].batch /\ load'[l].read = load[l].read
  BY <1>1, <1>3, ProceedFacts
<1>5. UNCHANGED <<source, target, lake, watermark, astray>>
  BY DEF Recreate
<1>6. BatchOK(load'[l], c, source[c], target'[c], lake'[c], staging'[c])
  BY <1>1, <1>2, <1>3, <1>4, <1>5 DEF BatchOK
<1>7. OwnStaging(l)
  BY <1>1 DEF Recreate, OwnStaging, Staged
<1> QED BY <1>1, <1>3, <1>5, <1>6, <1>7, ProceedRows

LEMMA AppendStagingRows == ASSUME Apart, RowsInv, NEW l \in Load, AppendStaging(l) PROVE RowsInv'
<1> DEFINE c == Now(l)
<1>1. IngestTypes /\ IngestTypes' /\ load[l].step = "append" /\ load[l].step \in Working
  BY AppendStagingTypes DEF RowsInv, AppendStaging, At, Working
<1>2. c \in Control /\ BatchOK(load[l], c, source[c], target[c], lake[c], staging[c])
  BY <1>1, WorkedOn
<1>3. Proceed(l, "upsert") /\ UNCHANGED <<source, target, lake, watermark, astray>>
  BY DEF AppendStaging
<1>4. load'[l].step = "upsert" /\ load'[l].batch = load[l].batch /\ load'[l].read = load[l].read
  BY <1>1, <1>3, ProceedFacts
<1>5. load[l].batch \subseteq staging'[c]
  <2>1. load[l].batch \subseteq Query(c, load[l].read[c])
    BY <1>2 DEF BatchOK, Query
  <2> QED BY <1>1, <1>2, <2>1 DEF AppendStaging, IngestTypes, Tables
<1>6. BatchOK(load'[l], c, source[c], target'[c], lake'[c], staging'[c])
  BY <1>1, <1>2, <1>3, <1>4, <1>5 DEF BatchOK
<1>7. OwnStaging(l)
  BY <1>1 DEF AppendStaging, OwnStaging, Staged
<1> QED BY <1>1, <1>3, <1>6, <1>7, ProceedRows

LEMMA UpsertRows == ASSUME RowsInv, NEW l \in Load, Upsert(l) PROVE RowsInv'
<1> DEFINE c == Now(l)
<1>1. IngestTypes /\ IngestTypes' /\ load[l].step = "upsert" /\ load[l].step \in Working
  BY UpsertTypes DEF RowsInv, Upsert, At, Working
<1>2. c \in Control /\ BatchOK(load[l], c, source[c], target[c], lake[c], staging[c])
  BY <1>1, WorkedOn
<1>3. Proceed(l, "clear") /\ UNCHANGED <<source, lake, staging, watermark, astray>>
  BY DEF Upsert
<1>4. load'[l].step = "clear" /\ load'[l].batch = load[l].batch /\ load'[l].read = load[l].read
  BY <1>1, <1>3, ProceedFacts
<1>5. target'[c] = target[c] \union staging[c] /\ \A d \in Control : target[d] \subseteq target'[d]
  BY <1>1, <1>2 DEF Upsert, IngestTypes, Tables
<1>6. BatchOK(load'[l], c, source[c], target'[c], lake'[c], staging'[c])
  BY <1>1, <1>2, <1>3, <1>4, <1>5 DEF BatchOK
<1> QED BY <1>1, <1>3, <1>5, <1>6, ProceedRows DEF OwnStaging

LEMMA ClearStagingRows == ASSUME Apart, RowsInv, NEW l \in Load, ClearStaging(l) PROVE RowsInv'
<1> DEFINE c == Now(l)
<1>1. IngestTypes /\ IngestTypes' /\ load[l].step = "clear" /\ load[l].step \in Working
  BY ClearStagingTypes DEF RowsInv, ClearStaging, At, Working
<1>2. c \in Control /\ BatchOK(load[l], c, source[c], target[c], lake[c], staging[c])
  BY <1>1, WorkedOn
<1>3. Proceed(l, "report") /\ UNCHANGED <<source, target, lake, watermark, astray>>
  BY DEF ClearStaging
<1>4. load'[l].step = "report" /\ load'[l].batch = load[l].batch /\ load'[l].read = load[l].read
  BY <1>1, <1>3, ProceedFacts
<1>5. BatchOK(load'[l], c, source[c], target'[c], lake'[c], staging'[c])
  BY <1>1, <1>2, <1>3, <1>4 DEF BatchOK
<1>6. OwnStaging(l)
  BY <1>1 DEF ClearStaging, OwnStaging, Staged
<1> QED BY <1>1, <1>3, <1>5, <1>6, ProceedRows

LEMMA SummarizeRows == ASSUME RowsInv, NEW l \in Load, Summarize(l) PROVE RowsInv'
<1> DEFINE c == Now(l)
<1>1. IngestTypes /\ IngestTypes' /\ load[l].step = "report" /\ load[l].todo # <<>>
  BY SummarizeTypes, RowTypes DEF RowsInv, Summarize, At, Working
<1>2. /\ c \in Control /\ LatestRead(l) \in Nat
      /\ c \notin astray => Reached(load[l].read[c], c, source[c], target[c], lake[c])
      /\ c \notin astray => Reached(LatestRead(l), c, source[c], target[c], lake[c])
      /\ Reached(0, c, source[c], target[c], lake[c])
  BY <1>1, BatchReached, ReachedNone DEF RowsInv
<1>3. PICK summary : /\ NextControl(l, summary, FALSE)
                     /\ c \notin astray => Reached(summary, c, source[c], target[c], lake[c])
  BY <1>2 DEF Summarize
<1>4. UNCHANGED <<source, target, lake, staging, astray>>
  BY DEF Summarize, tables
<1>5. MarkedRowsIn(watermark', astray', source', target', lake')
  <2>1. watermark' = watermark \/ watermark' = [watermark EXCEPT ![c] = LatestRead(l)]
    BY DEF Summarize
  <2> QED BY <1>1, <1>2, <1>4, <2>1 DEF MarkedRowsIn, RowsInv, IngestTypes
<1> QED BY <1>1, <1>3, <1>4, <1>5, NextRows

\* A table that failed: what the job says of it is where it read from.
LEMMA FailRows ==
  ASSUME RowsInv, NEW l \in Load, ReadFails(l) \/ ControlUnreachable(l) \/ WriteFails(l)
  PROVE  RowsInv'
<1> DEFINE c == Now(l)
<1>1. /\ IngestTypes /\ IngestTypes' /\ load[l].todo # <<>> /\ c \in Control
      /\ c \notin astray => Reached(load[l].read[c], c, source[c], target[c], lake[c])
  <2>1. IngestTypes /\ IngestTypes' /\ load[l].todo # <<>> /\ c \in Control
    BY ReadFailsTypes, ControlUnreachableTypes, WriteFailsTypes, RowTypes
    DEF RowsInv, ReadFails, ControlUnreachable, WriteFails, At, Working
  <2> QED BY <2>1 DEF RowsInv, RowOK, ReadsOK
<1>2. UNCHANGED <<source, target, lake, staging, watermark, astray>>
  BY DEF ReadFails, ControlUnreachable, WriteFails, tables
<1>3. MarkedRowsIn(watermark', astray', source', target', lake')
  BY <1>2 DEF RowsInv
<1>4. CASE Proceed(l, "failed")
  BY <1>1, <1>2, <1>4, ProceedRows DEF Working, OwnStaging
<1>5. CASE \E failed : NextControl(l, load[l].read[c], failed)
  BY <1>1, <1>2, <1>3, <1>5, NextRows
<1>6. CASE ControlUnreachable(l)
  <2>1. c \notin astray => Reached(LatestRead(l), c, source[c], target[c], lake[c])
    BY <1>6, BatchReached DEF ControlUnreachable, At
  <2>2. PICK summary, failed : /\ NextControl(l, summary, failed)
                               /\ c \notin astray => Reached(summary, c, source[c], target[c], lake[c])
    BY <1>1, <1>6, <2>1 DEF ControlUnreachable
  <2> QED BY <1>1, <1>2, <1>3, <2>2, NextRows
<1> QED BY <1>4, <1>5, <1>6 DEF ReadFails, WriteFails

LEMMA EndRows == ASSUME RowsInv, NEW l \in Load, Exit(l) \/ Kill(l) \/ Die(l) PROVE RowsInv'
<1>1. IngestTypes' /\ UNCHANGED <<source, target, lake, staging, watermark, astray>>
  BY ExitTypes, KillTypes DEF RowsInv, Exit, Kill, Die, tables
<1>2. PICK step \in Ends : Proceed(l, step)
  BY DEF Exit, Kill, Die, Proceed, Ends
<1> QED BY <1>1, <1>2, ProceedRows DEF Ends, Working, OwnStaging

LEMMA OrphanRows == ASSUME RowsInv, NEW l \in Load, Orphan(l) PROVE RowsInv'
<1>1. IngestTypes /\ IngestTypes' /\ UNCHANGED <<source, target, lake, staging, watermark, astray>>
  BY OrphanTypes DEF RowsInv, Orphan, tables
<1>2. /\ load'[l].step = load[l].step /\ load'[l].todo = load[l].todo /\ load'[l].batch = load[l].batch
      /\ load'[l].read = load[l].read /\ load'[l].summary = load[l].summary /\ load'[l].about = load[l].about
  BY <1>1 DEF Orphan, IngestTypes, LoadRow
<1>3. ReadsOK(load'[l], astray', source', target', lake') /\ SummaryOK(load'[l], astray', source', target', lake')
  BY <1>1, <1>2 DEF ReadsOK, SummaryOK, RowsInv, RowOK
<1>4. WorkOK(load[l], source, target, lake, staging)
  BY DEF RowsInv, RowOK
<1>5. WorkOK(load'[l], source', target', lake', staging')
  BY <1>1, <1>2, <1>4 DEF WorkOK, BatchOK
<1>6. MarkedRowsIn(watermark', astray', source', target', lake')
  BY <1>1 DEF RowsInv
<1>7. Others(l)
  BY <1>1, OthersAlone DEF OwnStaging, Orphan, IngestTypes
<1> QED BY <1>1, <1>3, <1>5, <1>6, <1>7, RowsStep DEF RowOK

\* The worker writes the second of the last row its job reported: it may set the watermark back,
\* never past a row that was not loaded, unless the row was another table's.
LEMMA WriteBackRows == ASSUME RowsInv, NEW l \in Load, WriteBack(l) PROVE RowsInv'
<1> DEFINE c == load[l].control
<1>1. IngestTypes /\ IngestTypes' /\ UNCHANGED <<source, target, lake, staging>> /\ load'[l] = NoLoad
      /\ astray \subseteq astray'
  BY WriteBackTypes DEF RowsInv, WriteBack, tables, IngestTypes
<1>2. RowOK(load'[l], astray', source', target', lake', staging')
  <2>1. \A d \in Control : Reached(0, d, source[d], target[d], lake[d])
    BY <1>1, ReachedNone
  <2> QED BY <1>1, <2>1, NoneIsNone DEF RowOK, ReadsOK, SummaryOK, WorkOK, NoLoad, Working
<1>3. MarkedRowsIn(watermark', astray', source', target', lake')
  <2>1. CASE watermark' = watermark
    BY <1>1, <2>1 DEF RowsInv, MarkedRowsIn
  <2>2. CASE watermark' # watermark
    <3>1. /\ c # None /\ Captured(l) = load[l].summary /\ Captured(l) # 0
          /\ watermark' = [watermark EXCEPT ![c] = Seconds(Captured(l))]
      BY <2>2 DEF WriteBack, Captured
    <3>2. c \in Control /\ load[l].summary \in Nat
      BY <1>1, <3>1, RowTypes
    <3>3. ASSUME c \notin astray'
          PROVE  Reached(Seconds(load[l].summary), c, source[c], target[c], lake[c])
      <4>1. load[l].about = c /\ c \notin astray
        BY <3>1, <3>3 DEF WriteBack
      <4>2. Reached(load[l].summary, c, source[c], target[c], lake[c])
        BY <3>2, <4>1 DEF RowsInv, RowOK, SummaryOK
      <4> QED BY <1>1, <3>2, <4>2, SecondsTypes, ReachedBefore
    <3> QED BY <1>1, <3>1, <3>2, <3>3 DEF MarkedRowsIn, RowsInv, IngestTypes
  <2> QED BY <2>1, <2>2
<1>4. Others(l)
  BY <1>1, OthersAlone DEF OwnStaging, WriteBack, IngestTypes
<1> QED BY <1>1, <1>2, <1>3, <1>4, RowsStep

LEMMA WriteBackFailsRows == ASSUME RowsInv, NEW l \in Load, WriteBackFails(l) PROVE RowsInv'
<1>1. /\ IngestTypes /\ IngestTypes' /\ UNCHANGED <<source, target, lake, staging, watermark, astray>>
      /\ load'[l] = NoLoad
  BY WriteBackFailsTypes DEF RowsInv, WriteBackFails, tables, IngestTypes
<1>2. \A d \in Control : Reached(0, d, source[d], target[d], lake[d])
  BY <1>1, ReachedNone
<1>3. RowOK(load'[l], astray', source', target', lake', staging')
  BY <1>1, <1>2, NoneIsNone DEF RowOK, ReadsOK, SummaryOK, WorkOK, NoLoad, Working
<1>4. MarkedRowsIn(watermark', astray', source', target', lake')
  BY <1>1 DEF RowsInv
<1>5. Others(l)
  BY <1>1, OthersAlone DEF OwnStaging, WriteBackFails, IngestTypes
<1> QED BY <1>1, <1>3, <1>4, <1>5, RowsStep

\* A watermark set back passes fewer rows; the control of one set forward goes astray.
LEMMA ResetRows == ASSUME RowsInv, NEW c \in Control, Reset(c) PROVE RowsInv'
<1>1. IngestTypes /\ IngestTypes' /\ UNCHANGED <<source, target, lake, staging, load>>
  BY ResetTypes DEF RowsInv, Reset, tables
<1>2. PICK value \in 0..(MaxInstant[c] + 1) :
        /\ watermark' = [watermark EXCEPT ![c] = value]
        /\ astray' = IF value > watermark[c] THEN astray \union {c} ELSE astray
  BY DEF Reset
<1>3. value \in Nat /\ watermark[c] \in Nat /\ astray \subseteq astray'
  BY <1>1, <1>2 DEF IngestTypes
<1>4. c \notin astray' => Reached(value, c, source[c], target[c], lake[c])
  <2>1. SUFFICES ASSUME c \notin astray' PROVE Reached(value, c, source[c], target[c], lake[c])
    OBVIOUS
  <2>2. value <= watermark[c] /\ c \notin astray
    BY <1>2, <1>3, <2>1
  <2>3. Reached(watermark[c], c, source[c], target[c], lake[c])
    BY <2>2 DEF RowsInv, MarkedRowsIn
  <2> QED BY <1>1, <1>3, <2>2, <2>3, ReachedBefore
<1>5. MarkedRowsIn(watermark', astray', source', target', lake')
  BY <1>1, <1>2, <1>3, <1>4 DEF MarkedRowsIn, RowsInv, IngestTypes
<1>6. ASSUME NEW l \in Load PROVE RowOK(load'[l], astray', source', target', lake', staging')
  BY <1>1, <1>3 DEF RowsInv, RowOK, ReadsOK, SummaryOK
<1> QED BY <1>1, <1>5, <1>6 DEF RowsInv

\* A row that arrives is later than every instant that was read.
LEMMA ArriveRows == ASSUME RowsInv, NEW c \in Control, Arrive(c) PROVE RowsInv'
<1>1. IngestTypes /\ IngestTypes' /\ UNCHANGED <<target, lake, staging, watermark, astray, load>>
  BY ArriveTypes DEF RowsInv, Arrive
<1>2. PICK k \in Nat : source[c] = 1..k /\ source' = [source EXCEPT ![c] = 1..(k + 1)]
  BY <1>1, ArriveTypes
<1>3. /\ source'[c] = source[c] \union {k + 1} /\ \A d \in Control \ {c} : source'[d] = source[d]
  <2>1. 1..(k + 1) = (1..k) \union {k + 1}
    OBVIOUS
  <2> QED BY <1>1, <1>2, <2>1 DEF IngestTypes, Tables
<1>4. \A d \in Control : \A n : Reached(n, d, source[d], target[d], lake[d]) =>
        Reached(n, d, source'[d], target[d], lake[d])
  <2>1. ASSUME NEW n, Reached(n, c, source[c], target[c], lake[c])
        PROVE  Reached(n, c, source'[c], target[c], lake[c])
    <3>1. n \in 0..k
      BY <1>2, <2>1 DEF Reached
    <3>2. ~(k + 1 <= n)
      BY <3>1
    <3> QED BY <1>3, <2>1, <3>2 DEF Reached
  <2> QED BY <1>3, <2>1
<1>5. MarkedRowsIn(watermark', astray', source', target', lake')
  BY <1>1, <1>4 DEF MarkedRowsIn, RowsInv
<1>6. ASSUME NEW l \in Load PROVE RowOK(load'[l], astray', source', target', lake', staging')
  <2>1. RowOK(load[l], astray, source, target, lake, staging)
    BY DEF RowsInv
  <2>2. ReadsOK(load[l], astray, source', target, lake)
    BY <1>4, <2>1 DEF RowOK, ReadsOK
  <2>3. SummaryOK(load[l], astray, source', target, lake)
    BY <1>4, <2>1 DEF RowOK, SummaryOK
  <2>4. WorkOK(load[l], source', target, lake, staging)
    <3>1. SUFFICES ASSUME load[l].step \in Working
                   PROVE  BatchOK(load[l], Now(l), source'[Now(l)], target[Now(l)], lake[Now(l)], staging[Now(l)])
      BY DEF WorkOK, Now
    <3>2. /\ Now(l) \in Control
          /\ BatchOK(load[l], Now(l), source[Now(l)], target[Now(l)], lake[Now(l)], staging[Now(l)])
      BY <3>1, WorkedOn
    <3>3. CASE Now(l) # c
      BY <1>3, <3>2, <3>3
    <3>4. CASE Now(l) = c
      <4>1. \A b \in load[l].batch : b < k + 1
        BY <1>2, <3>2, <3>4 DEF BatchOK
      <4> QED BY <1>3, <3>2, <3>4, <4>1 DEF BatchOK
    <3> QED BY <3>3, <3>4
  <2> QED BY <1>1, <2>2, <2>3, <2>4 DEF RowOK
<1> QED BY <1>1, <1>5, <1>6 DEF RowsInv

LEMMA RowsKept == ASSUME Apart, RowsInv, [IngestNext]_ingestVars PROVE RowsInv'
<1>1. CASE UNCHANGED ingestVars
  <2>1. IngestTypes' /\ UNCHANGED <<source, lake, target, staging, watermark, astray, load>>
    BY <1>1, LoadTypesKept DEF RowsInv, ingestVars, tables
  <2> QED BY <2>1 DEF RowsInv
<1>2. ASSUME NEW l \in Load, LoadStep(l) PROVE RowsInv'
  <2>1. CASE PrepareFails(l)
    <3>1. IngestTypes' /\ UNCHANGED <<source, lake, target, staging, watermark, astray, load>>
      BY <2>1, PrepareFailsTypes DEF RowsInv, PrepareFails, tables
    <3> QED BY <3>1 DEF RowsInv
  <2> QED BY <1>2, <2>1, PrepareRows, StartRows, ReadSourceRows, CopyToLakeRows, RecreateRows, AppendStagingRows,
             UpsertRows, ClearStagingRows, SummarizeRows, FailRows, EndRows, OrphanRows, WriteBackRows,
             WriteBackFailsRows DEF LoadStep
<1>3. ASSUME NEW c \in Control, Arrive(c) \/ Reset(c) PROVE RowsInv'
  BY <1>3, ArriveRows, ResetRows
<1> QED BY <1>1, <1>2, <1>3 DEF IngestNext

\* The watermark of a control never passes a row that is not in its destinations, whatever write
\* fails, process dies or watermark is reset (process_control, update_control, create_backfill), for
\* any number of controls, rows and executions, as long as no two use one staging table at a time,
\* and the control was never reset to a later instant nor given the watermark of another table
\* (_update_control_from_execution).
THEOREM RowsArrive == IngestSpec /\ []Apart => []NoRowLeftBehind
<1>1. IngestInit => RowsInv
  BY InitRows
<1>2. RowsInv /\ Apart /\ [IngestNext]_ingestVars => RowsInv'
  BY RowsKept
<1>3. RowsInv => NoRowLeftBehind
  BY DEF RowsInv, MarkedRowsIn, Reached, NoRowLeftBehind, Covered
<1> QED BY <1>1, <1>2, <1>3, PTL DEF IngestSpec

-----------------------------------------------------------------------------
(* No row comes from nowhere: what a load read, staged or wrote is in the   *)
(* source, however loads overlap, and no watermark is after the last       *)
(* instant a row may have, unless its control went astray.                 *)

FromSource(t, s) == \A c \in Control : t[c] \subseteq s[c]
UpTo(instants, a) == \A c \in Control \ a : instants[c] <= MaxInstant[c]
RowFromSource(row, a, s) ==
  /\ UpTo(row.read, a)
  /\ row.step \in Working => row.batch \subseteq s[Head(row.todo)]
  /\ row.todo = <<>> => row.batch = {}
  /\ row.about \in Control \ a => row.summary <= MaxInstant[row.about]

SourcesInv ==
  /\ IngestTypes /\ UpTo(watermark, astray)
  /\ \A c \in Control : \A r \in source[c] : r <= MaxInstant[c]
  /\ FromSource(lake, source) /\ FromSource(target, source) /\ FromSource(staging, source)
  /\ \A l \in Load : RowFromSource(load[l], astray, source)

LEMMA InstantsAreNumbers == \A c \in Control : MaxInstant[c] \in Nat
BY IngestionAssumption DEF Control

LEMMA SourcesInit == ASSUME IngestInit PROVE SourcesInv
<1>1. IngestTypes
  BY InitTypes
<1>2. \A c \in Control : 0 <= MaxInstant[c]
  BY InstantsAreNumbers
<1>3. ASSUME NEW l \in Load PROVE RowFromSource(load[l], astray, source)
  BY <1>2 DEF IngestInit, NoLoad, RowFromSource, UpTo, Working
<1> QED BY <1>1, <1>2, <1>3 DEF SourcesInv, FromSource, UpTo, IngestInit

\* The row of the execution is all that a step changes of the executions.
LEMMA SourcesStep ==
  ASSUME SourcesInv, IngestTypes', UNCHANGED source, astray \subseteq astray', NEW l \in Load,
         \A k \in Load \ {l} : load'[k] = load[k],
         FromSource(lake', source), FromSource(target', source), FromSource(staging', source),
         UpTo(watermark', astray'), RowFromSource(load'[l], astray', source)
  PROVE  SourcesInv'
<1>1. \A k \in Load : RowFromSource(load'[k], astray', source')
  BY DEF SourcesInv, RowFromSource, UpTo
<1> QED BY <1>1 DEF SourcesInv, FromSource, UpTo

\* A step of the job goes on with what was read.
LEMMA ProceedFromSource ==
  ASSUME SourcesInv, IngestTypes', UNCHANGED <<source, watermark, astray>>, NEW l \in Load, NEW step, Proceed(l, step),
         load[l].step \in Working \/ step \notin Working,
         FromSource(lake', source), FromSource(target', source), FromSource(staging', source)
  PROVE  SourcesInv'
<1>1. /\ \A k \in Load \ {l} : load'[k] = load[k]
      /\ load'[l].step = step /\ load'[l].todo = load[l].todo /\ load'[l].control = load[l].control
      /\ load'[l].read = load[l].read /\ load'[l].batch = load[l].batch
      /\ load'[l].summary = load[l].summary /\ load'[l].about = load[l].about
  BY ProceedFacts DEF SourcesInv
<1>2. RowFromSource(load'[l], astray', source)
  BY <1>1 DEF SourcesInv, RowFromSource
<1> QED BY <1>1, <1>2, SourcesStep DEF SourcesInv

\* The table is over, with a summary that is an instant.
LEMMA NextFromSource ==
  ASSUME SourcesInv, IngestTypes', UNCHANGED <<tables, astray>>, NEW l \in Load, NEW summary, NEW failed,
         load[l].todo # <<>>, NextControl(l, summary, failed),
         Now(l) \notin astray => summary <= MaxInstant[Now(l)], UpTo(watermark', astray')
  PROVE  SourcesInv'
<1>1. /\ \A k \in Load \ {l} : load'[k] = load[k]
      /\ load'[l].step = "next" /\ load'[l].todo = Tail(load[l].todo)
      /\ load'[l].control = load[l].control /\ load'[l].read = load[l].read
      /\ load'[l].summary = summary /\ load'[l].about = Now(l)
  BY NextFacts DEF SourcesInv
<1>2. load'[l].batch = {}
  BY RowTypes DEF NextControl, SourcesInv, IngestTypes, LoadRow
<1>3. RowFromSource(load'[l], astray', source)
  BY <1>1, <1>2 DEF RowFromSource, SourcesInv, Working
<1> QED BY <1>1, <1>3, SourcesStep DEF SourcesInv, tables

\* What a load is at work on.
LEMMA BatchFromSource ==
  ASSUME SourcesInv, NEW l \in Load, load[l].step \in Working
  PROVE  /\ Now(l) \in Control /\ load[l].todo # <<>> /\ load[l].batch \subseteq source[Now(l)]
         /\ Now(l) \notin astray => load[l].read[Now(l)] <= MaxInstant[Now(l)]
         /\ LatestRead(l) \in Nat
         /\ LatestRead(l) <= MaxInstant[Now(l)]
<1>1. /\ Now(l) \in Control /\ load[l].todo # <<>> /\ load[l].batch \subseteq source[Now(l)]
      /\ Now(l) \notin astray => load[l].read[Now(l)] <= MaxInstant[Now(l)]
      /\ load[l].batch \in FewRows
  BY RowTypes DEF SourcesInv, RowFromSource, UpTo, Now
<1>2. LatestRead(l) \in Nat /\ LatestRead(l) \in load[l].batch \union {0}
  BY <1>1, LatestRow DEF LatestRead
<1> QED BY <1>1, <1>2, InstantsAreNumbers DEF SourcesInv

LEMMA PrepareFromSource == ASSUME SourcesInv, NEW l \in Load, Prepare(l) PROVE SourcesInv'
<1>1. IngestTypes /\ IngestTypes' /\ UNCHANGED <<source, lake, target, staging, watermark, astray>>
  BY PrepareTypes DEF SourcesInv, Prepare, tables
<1>2. PICK selected \in Selections, own \in Control \union {None} :
        load' = [load EXCEPT ![l] =
          [NoLoad EXCEPT !.step = "start", !.todo = selected, !.control = Primary(selected, own),
                         !.read = ReadsAt(l, selected)]]
  BY DEF Prepare
<1>3. /\ load'[l].step = "start" /\ load'[l].todo = selected /\ load'[l].about = None
      /\ load'[l].read = ReadsAt(l, selected)
      /\ \A k \in Load \ {l} : load'[k] = load[k]
  BY <1>1, <1>2 DEF IngestTypes, NoLoad
<1>4. UpTo(ReadsAt(l, selected), astray)
  BY DEF UpTo, ReadsAt, SourcesInv, RowFromSource
<1>5. selected # <<>>
  BY SelectionsAreControls
<1>6. RowFromSource(load'[l], astray', source)
  BY <1>1, <1>3, <1>4, <1>5, NoneIsNone DEF RowFromSource, Working
<1> QED BY <1>1, <1>3, <1>6, SourcesStep DEF SourcesInv

LEMMA StartFromSource == ASSUME SourcesInv, NEW l \in Load, Start(l) PROVE SourcesInv'
<1> DEFINE mine == SelectSeq(load[l].todo, LAMBDA c : c \in ToMySQL)
<1>1. IngestTypes /\ IngestTypes' /\ UNCHANGED <<source, lake, target, staging, watermark, astray>>
  BY StartTypes DEF SourcesInv, Start, tables
<1>2. load' = [load EXCEPT ![l].step = "next", ![l].read = ReadsAt(l, mine)]
  BY DEF Start
<1> HIDE DEF mine
<1>3. /\ load'[l].step = "next" /\ load'[l].todo = load[l].todo /\ load'[l].control = load[l].control
      /\ load'[l].read = ReadsAt(l, mine) /\ load'[l].summary = load[l].summary
      /\ load'[l].batch = load[l].batch /\ load'[l].about = load[l].about /\ \A k \in Load \ {l} : load'[k] = load[k]
  BY <1>1, <1>2 DEF IngestTypes, LoadRow
<1>4. UpTo(ReadsAt(l, mine), astray)
  BY DEF UpTo, ReadsAt, SourcesInv, RowFromSource
<1>5. RowFromSource(load'[l], astray', source)
  BY <1>1, <1>3, <1>4 DEF RowFromSource, SourcesInv, Working
<1> QED BY <1>1, <1>3, <1>5, SourcesStep DEF SourcesInv

LEMMA ReadFromSource == ASSUME SourcesInv, NEW l \in Load, ReadSource(l) PROVE SourcesInv'
<1> DEFINE c == Now(l)
<1>1. IngestTypes /\ IngestTypes' /\ UNCHANGED <<source, lake, target, staging, watermark, astray>> /\ load[l].todo # <<>>
  BY ReadSourceTypes DEF SourcesInv, ReadSource, tables
<1>2. /\ load'[l].todo = load[l].todo /\ load'[l].control = load[l].control
      /\ load'[l].read = load[l].read /\ load'[l].batch = Query(c, load[l].read[c])
      /\ load'[l].summary = load[l].summary /\ load'[l].about = load[l].about
      /\ \A k \in Load \ {l} : load'[k] = load[k]
  BY <1>1 DEF ReadSource, IngestTypes, LoadRow
<1>3. RowFromSource(load'[l], astray', source)
  BY <1>1, <1>2 DEF RowFromSource, SourcesInv, Query, Now
<1> QED BY <1>1, <1>2, <1>3, SourcesStep DEF SourcesInv

\* The writes: a table gets rows of the batch, of the staging or of the source.
LEMMA WriteFromSource ==
  ASSUME SourcesInv, NEW l \in Load, CopyToLake(l) \/ Recreate(l) \/ AppendStaging(l) \/ Upsert(l) \/ ClearStaging(l)
  PROVE  SourcesInv'
<1> DEFINE c == Now(l)
<1>1. IngestTypes /\ IngestTypes' /\ load[l].step \in Working /\ UNCHANGED <<source, watermark, astray>>
  BY CopyToLakeTypes, RecreateTypes, AppendStagingTypes, UpsertTypes, ClearStagingTypes
  DEF SourcesInv, CopyToLake, Recreate, AppendStaging, Upsert, ClearStaging, At, Working
<1>2. c \in Control /\ load[l].batch \subseteq source[c] /\ Query(c, load[l].read[c]) \subseteq source[c]
  BY <1>1, BatchFromSource DEF Query
<1>3. PICK step : Proceed(l, step)
  BY DEF CopyToLake, Recreate, AppendStaging, Upsert, ClearStaging
<1>4. FromSource(lake, source) /\ FromSource(target, source) /\ FromSource(staging, source)
  BY DEF SourcesInv
<1>5. \A t \in Tables : \A rows : rows \subseteq source[c] /\ FromSource(t, source) =>
        FromSource([t EXCEPT ![c] = rows], source)
  BY <1>2 DEF FromSource, Tables
<1>6. lake \in Tables /\ target \in Tables /\ staging \in Tables
  BY <1>1 DEF IngestTypes
<1>7. lake[c] \union load[l].batch \subseteq source[c] /\ target[c] \union staging[c] \subseteq source[c]
      /\ staging[c] \union load[l].batch \subseteq source[c]
      /\ staging[c] \union Query(c, load[l].read[c]) \subseteq source[c] /\ {} \subseteq source[c]
  BY <1>2, <1>4 DEF FromSource
<1>8. CASE CopyToLake(l)
  BY <1>1, <1>3, <1>4, <1>5, <1>6, <1>7, <1>8, ProceedFromSource DEF CopyToLake
<1>9. CASE Recreate(l)
  BY <1>1, <1>3, <1>4, <1>5, <1>6, <1>7, <1>9, ProceedFromSource DEF Recreate
<1>10. CASE AppendStaging(l)
  <2> DEFINE rows == staging[c] \union IF c \in ToTargets THEN load[l].batch ELSE Query(c, load[l].read[c])
  <2>1. rows \subseteq source[c]
    BY <1>7
  <2>2. staging' = [staging EXCEPT ![c] = rows]
    BY <1>10 DEF AppendStaging
  <2>3. UNCHANGED <<lake, target>>
    BY <1>10 DEF AppendStaging
  <2> HIDE DEF rows
  <2>4. FromSource(staging', source)
    BY <1>4, <1>5, <1>6, <2>1, <2>2
  <2> QED BY <1>1, <1>3, <1>4, <2>3, <2>4, ProceedFromSource
<1>11. CASE Upsert(l)
  BY <1>1, <1>3, <1>4, <1>5, <1>6, <1>7, <1>11, ProceedFromSource DEF Upsert
<1>12. CASE ClearStaging(l)
  BY <1>1, <1>3, <1>4, <1>5, <1>6, <1>7, <1>12, ProceedFromSource DEF ClearStaging
<1> QED BY <1>8, <1>9, <1>10, <1>11, <1>12

LEMMA SummarizeFromSource == ASSUME SourcesInv, NEW l \in Load, Summarize(l) PROVE SourcesInv'
<1>1. IngestTypes /\ IngestTypes' /\ load[l].step \in Working /\ UNCHANGED <<tables, astray>>
  BY SummarizeTypes DEF SourcesInv, Summarize, At, Working
<1>2. /\ Now(l) \in Control /\ load[l].todo # <<>>
      /\ Now(l) \notin astray => load[l].read[Now(l)] <= MaxInstant[Now(l)]
      /\ LatestRead(l) <= MaxInstant[Now(l)] /\ 0 <= MaxInstant[Now(l)]
  BY <1>1, BatchFromSource, InstantsAreNumbers
<1>3. PICK summary : NextControl(l, summary, FALSE) /\ (Now(l) \notin astray => summary <= MaxInstant[Now(l)])
  BY <1>2 DEF Summarize
<1>4. watermark' = watermark \/ watermark' = [watermark EXCEPT ![Now(l)] = LatestRead(l)]
  BY DEF Summarize
<1>5. UpTo(watermark', astray')
  BY <1>1, <1>2, <1>4 DEF UpTo, SourcesInv, IngestTypes
<1> QED BY <1>1, <1>2, <1>3, <1>5, NextFromSource

LEMMA FailFromSource ==
  ASSUME SourcesInv, NEW l \in Load, ReadFails(l) \/ ControlUnreachable(l) \/ WriteFails(l)
  PROVE  SourcesInv'
<1>1. /\ IngestTypes /\ IngestTypes' /\ UNCHANGED <<tables, astray>> /\ watermark' = watermark
      /\ load[l].todo # <<>> /\ Now(l) \in Control
  BY ReadFailsTypes, ControlUnreachableTypes, WriteFailsTypes, RowTypes
  DEF SourcesInv, ReadFails, ControlUnreachable, WriteFails, At, Working
<1>2. (Now(l) \notin astray => load[l].read[Now(l)] <= MaxInstant[Now(l)]) /\ UpTo(watermark', astray')
  BY <1>1 DEF SourcesInv, RowFromSource, UpTo
<1>3. CASE Proceed(l, "failed")
  BY <1>1, <1>3, ProceedFromSource DEF tables, Working, SourcesInv
<1>4. CASE \E failed : NextControl(l, load[l].read[Now(l)], failed)
  BY <1>1, <1>2, <1>4, NextFromSource
<1>5. CASE ControlUnreachable(l)
  <2>1. LatestRead(l) <= MaxInstant[Now(l)]
    BY <1>5, BatchFromSource DEF ControlUnreachable, At, Working
  <2>2. PICK summary, failed : NextControl(l, summary, failed) /\ (Now(l) \notin astray => summary <= MaxInstant[Now(l)])
    BY <1>2, <1>5, <2>1 DEF ControlUnreachable
  <2> QED BY <1>1, <1>2, <2>2, NextFromSource
<1> QED BY <1>3, <1>4, <1>5 DEF ReadFails, WriteFails

LEMMA EndFromSource == ASSUME SourcesInv, NEW l \in Load, Exit(l) \/ Kill(l) \/ Die(l) PROVE SourcesInv'
<1>1. IngestTypes' /\ UNCHANGED <<source, target, lake, staging, watermark, astray>>
  BY ExitTypes, KillTypes DEF SourcesInv, Exit, Kill, Die, tables
<1>2. PICK step \in Ends : Proceed(l, step)
  BY DEF Exit, Kill, Die, Proceed, Ends
<1> QED BY <1>1, <1>2, ProceedFromSource DEF Ends, Working, SourcesInv

LEMMA OrphanFromSource == ASSUME SourcesInv, NEW l \in Load, Orphan(l) PROVE SourcesInv'
<1>1. IngestTypes /\ IngestTypes' /\ UNCHANGED <<source, target, lake, staging, watermark, astray>>
  BY OrphanTypes DEF SourcesInv, Orphan, tables
<1>2. /\ load'[l].step = load[l].step /\ load'[l].todo = load[l].todo /\ load'[l].batch = load[l].batch
      /\ load'[l].read = load[l].read /\ load'[l].summary = load[l].summary /\ load'[l].about = load[l].about
      /\ \A k \in Load \ {l} : load'[k] = load[k]
  BY <1>1 DEF Orphan, IngestTypes, LoadRow
<1>3. RowFromSource(load'[l], astray', source)
  BY <1>1, <1>2 DEF RowFromSource, SourcesInv
<1> QED BY <1>1, <1>2, <1>3, SourcesStep DEF SourcesInv

LEMMA NoLoadFromSource == ASSUME NEW a PROVE RowFromSource(NoLoad, a, source)
BY InstantsAreNumbers, NoneIsNone DEF RowFromSource, UpTo, NoLoad, Working

LEMMA WriteBackFromSource == ASSUME SourcesInv, NEW l \in Load, WriteBack(l) PROVE SourcesInv'
<1> DEFINE c == load[l].control
<1>1. /\ IngestTypes /\ IngestTypes' /\ UNCHANGED <<source, target, lake, staging>>
      /\ load' = [load EXCEPT ![l] = NoLoad] /\ astray \subseteq astray'
  BY WriteBackTypes DEF SourcesInv, WriteBack, tables
<1>2. load'[l] = NoLoad /\ \A k \in Load \ {l} : load'[k] = load[k]
  BY <1>1 DEF IngestTypes
<1>3. RowFromSource(load'[l], astray', source)
  BY <1>2, NoLoadFromSource
<1>4. UpTo(watermark', astray')
  <2>1. CASE watermark' = watermark
    BY <1>1, <2>1 DEF SourcesInv, UpTo
  <2>2. CASE watermark' # watermark
    <3>1. /\ c # None /\ Captured(l) = load[l].summary /\ Captured(l) # 0
          /\ watermark' = [watermark EXCEPT ![c] = Seconds(Captured(l))]
      BY <2>2 DEF WriteBack, Captured
    <3>2. c \in Control /\ load[l].summary \in Nat
      BY <1>1, <3>1, RowTypes
    <3>3. ASSUME c \notin astray' PROVE Seconds(load[l].summary) <= MaxInstant[c]
      <4>1. load[l].about = c /\ c \notin astray
        BY <3>1, <3>3 DEF WriteBack
      <4>2. load[l].summary <= MaxInstant[c]
        BY <3>2, <4>1 DEF SourcesInv, RowFromSource
      <4> QED BY <3>2, <4>2, SecondsTypes, InstantsAreNumbers
    <3> QED BY <1>1, <3>1, <3>2, <3>3 DEF UpTo, SourcesInv, IngestTypes
  <2> QED BY <2>1, <2>2
<1> QED BY <1>1, <1>2, <1>3, <1>4, SourcesStep DEF SourcesInv

LEMMA WriteBackFailsFromSource == ASSUME SourcesInv, NEW l \in Load, WriteBackFails(l) PROVE SourcesInv'
<1>1. /\ IngestTypes /\ IngestTypes' /\ UNCHANGED <<source, target, lake, staging, watermark, astray>>
      /\ load' = [load EXCEPT ![l] = NoLoad]
  BY WriteBackFailsTypes DEF SourcesInv, WriteBackFails, tables
<1>2. load'[l] = NoLoad /\ \A k \in Load \ {l} : load'[k] = load[k]
  BY <1>1 DEF IngestTypes
<1>3. RowFromSource(load'[l], astray', source)
  BY <1>2, NoLoadFromSource
<1> QED BY <1>1, <1>2, <1>3, SourcesStep DEF SourcesInv

LEMMA ResetFromSource == ASSUME SourcesInv, NEW c \in Control, Reset(c) PROVE SourcesInv'
<1>1. IngestTypes /\ IngestTypes' /\ UNCHANGED <<source, target, lake, staging, load>>
  BY ResetTypes DEF SourcesInv, Reset, tables
<1>2. PICK value \in 0..(MaxInstant[c] + 1) :
        /\ watermark' = [watermark EXCEPT ![c] = value]
        /\ astray' = IF value > watermark[c] THEN astray \union {c} ELSE astray
  BY DEF Reset
<1>3. watermark \in [Control -> Nat] /\ UpTo(watermark, astray) /\ astray \subseteq astray' /\ value \in Nat
  BY <1>2 DEF SourcesInv, IngestTypes
<1>4. UpTo(watermark', astray')
  BY <1>2, <1>3, InstantsAreNumbers DEF UpTo
<1>5. ASSUME NEW l \in Load PROVE RowFromSource(load'[l], astray', source')
  BY <1>1, <1>3 DEF SourcesInv, RowFromSource, UpTo
<1> QED BY <1>1, <1>4, <1>5 DEF SourcesInv, FromSource

LEMMA ArriveFromSource == ASSUME SourcesInv, NEW c \in Control, Arrive(c) PROVE SourcesInv'
<1>1. IngestTypes /\ IngestTypes' /\ UNCHANGED <<target, lake, staging, watermark, astray, load>>
  BY ArriveTypes DEF SourcesInv, Arrive
<1>2. source[c] \in FewRows /\ Latest(source[c]) < MaxInstant[c] /\ Latest(source[c]) \in Nat /\ MaxInstant[c] \in Nat
  BY <1>1, LatestRow, InstantsAreNumbers DEF Arrive, IngestTypes, Tables
<1>3. \A d \in Control : source[d] \subseteq source'[d]
  BY <1>1 DEF Arrive, IngestTypes, Tables
<1>4. ASSUME NEW d \in Control, NEW r \in source'[d] PROVE r <= MaxInstant[d]
  <2>1. r \in source[d] \/ (d = c /\ r = Latest(source[c]) + 1)
    BY <1>1, <1>4 DEF Arrive, IngestTypes, Tables
  <2> QED BY <1>2, <2>1 DEF SourcesInv
<1>5. ASSUME NEW l \in Load PROVE RowFromSource(load'[l], astray', source')
  <2>1. RowFromSource(load[l], astray, source) /\ (load[l].step \in Working => Head(load[l].todo) \in Control)
    BY RowTypes DEF SourcesInv, Now
  <2> QED BY <1>1, <1>3, <2>1 DEF RowFromSource
<1> QED BY <1>1, <1>3, <1>4, <1>5 DEF SourcesInv, FromSource, UpTo

\* The rows of every table are those of its source, and no watermark is beyond them, for any controls,
\* overlapping executions, failures and resets (the types of Ingestion); excused is the watermark of
\* a control that was reset to a later instant or given that of another table.
THEOREM RowsComeFromSource == IngestSpec => []IngestTypeOK
<1>1. IngestInit => SourcesInv
  BY SourcesInit
<1>2. SourcesInv /\ [IngestNext]_ingestVars => SourcesInv'
  <2> SUFFICES ASSUME SourcesInv, [IngestNext]_ingestVars PROVE SourcesInv'
    OBVIOUS
  <2>1. CASE UNCHANGED ingestVars
    <3>1. IngestTypes' /\ UNCHANGED <<source, lake, target, staging, watermark, astray, load>>
      BY <2>1, LoadTypesKept DEF SourcesInv, ingestVars, tables
    <3> QED BY <3>1 DEF SourcesInv, FromSource, UpTo
  <2>2. ASSUME NEW l \in Load, PrepareFails(l) PROVE SourcesInv'
    <3>1. IngestTypes' /\ UNCHANGED <<source, lake, target, staging, watermark, astray, load>>
      BY <2>2, PrepareFailsTypes DEF SourcesInv, PrepareFails, tables
    <3> QED BY <3>1 DEF SourcesInv, FromSource, UpTo
  <2>3. ASSUME NEW l \in Load, LoadStep(l) PROVE SourcesInv'
    BY <2>2, <2>3, PrepareFromSource, StartFromSource, ReadFromSource, WriteFromSource, SummarizeFromSource,
       FailFromSource, EndFromSource, OrphanFromSource, WriteBackFromSource, WriteBackFailsFromSource DEF LoadStep
  <2>4. ASSUME NEW c \in Control, Arrive(c) \/ Reset(c) PROVE SourcesInv'
    BY <2>4, ArriveFromSource, ResetFromSource
  <2> QED BY <2>1, <2>3, <2>4 DEF IngestNext
<1>3. SourcesInv => IngestTypeOK
  <2> SUFFICES ASSUME SourcesInv PROVE IngestTypeOK
    OBVIOUS
  <2>1. \A c \in Control : watermark[c] \in Nat /\ (c \notin astray => watermark[c] <= MaxInstant[c])
    BY DEF SourcesInv, UpTo, IngestTypes
  <2>2. \A l \in Load : load[l].control \in Control \union {None}
    BY RowTypes DEF SourcesInv
  <2>3. \A l \in Load : load[l].todo = <<>> => load[l].batch = {}
    BY DEF SourcesInv, RowFromSource
  <2> QED BY <2>1, <2>2, <2>3 DEF IngestTypeOK, SourcesInv, FromSource
<1> QED BY <1>1, <1>2, <1>3, PTL DEF IngestSpec

-----------------------------------------------------------------------------
(* Quality: what an evaluation stores and what it announces.               *)

GradeRow == [control : LoadControl, status : {"queued", "success", "failed", "timeout"}, lines : Report \union {<<>>},
             slow : BOOLEAN, quality : {NoGrade, "never", "pass", "warn", "fail"}]

\* Only a result has the key of a result.
LEMMA KeysApart ==
  ASSUME NEW y, NEW tb, NEW x, NEW c
  PROVE  /\ <<"dq", y, tb>> # <<"lineage", x>> /\ <<"dq", y, tb>> # <<"dq_score", x, c>>
         /\ <<"dq", y, tb>> # <<"dq", x, "check", c>>
         /\ <<"dq", y, tb>> # <<"s3", x, c>> /\ <<"dq", y, tb>> # <<"s3_part", x, c>>
         /\ <<"dq", y, tb>> # <<"incident", c, x>>
         /\ <<"dq", y, tb>> = <<"dq", x, c>> => y = x /\ tb = c
<1> DEFINE f == <<"dq", y, tb>>
           g == <<"dq", x, "check", c>>
           h == <<"lineage", x>>
<1>1. DOMAIN f = 1..3 /\ DOMAIN g = 1..4 /\ DOMAIN h = 1..2
  OBVIOUS
<1>2. f # g /\ f # h
  <2> HIDE DEF f, g, h
  <2>1. 4 \notin DOMAIN f /\ 4 \in DOMAIN g /\ 3 \in DOMAIN f /\ 3 \notin DOMAIN h
    BY <1>1
  <2> QED BY <2>1
<1>3. f[1] = "dq" /\ f[2] = y /\ f[3] = tb
  OBVIOUS
<1>4. "dq" # "dq_score" /\ "dq" # "s3" /\ "dq" # "s3_part" /\ "dq" # "incident"
  OBVIOUS
<1>5. /\ f # <<"dq_score", x, c>> /\ f # <<"s3", x, c>> /\ f # <<"s3_part", x, c>> /\ f # <<"incident", c, x>>
      /\ f = <<"dq", x, c>> => y = x /\ tb = c
  OBVIOUS
<1> QED BY <1>2, <1>5

LEMMA GradesAgree == ASSUME NEW checks PROVE <<Overall(checks), DqStatus(checks)>> \in Grades
BY DEF Overall, DqStatus, Grades

\* What the events of a table are known by.
LEMMA EventsOfTable ==
  ASSUME NEW x, NEW l
  PROVE  /\ \E e \in EventsOf(x, l) : e.key = <<"dq", x, l.table>>
         /\ \E e \in EventsOf(x, l) : e.key = <<"dq_score", x, l.table>>
         /\ Critical(ChecksOf(x, l)) # {} =>
              \E e \in EventsOf(x, l) : e.key = <<"incident", "DATA_QUALITY_CRITICAL", x>>
         /\ \A e \in EventsOf(x, l) : \A y, tb : e.key = <<"dq", y, tb>> => y = x
         /\ \A e \in EventsOf(x, l) : \A y, tb : e.key = <<"dq", y, tb>> =>
              tb = l.table /\ <<RowOf(x, l).overall, e.status>> \in Grades
<1> DEFINE checks == ChecksOf(x, l)
           res == ResultEvent(x, l.table, checks)
           score == ScoreEvent(x, l.table, checks)
           inc == IncidentEvent("DATA_QUALITY_CRITICAL", x)
<1>1. /\ {res, score} \subseteq EventsOf(x, l)
      /\ Critical(checks) # {} => inc \in EventsOf(x, l)
  BY DEF EventsOf
<1>2. /\ res.key = <<"dq", x, l.table>> /\ res.status = DqStatus(checks)
      /\ score.key = <<"dq_score", x, l.table>>
      /\ inc.key = <<"incident", "DATA_QUALITY_CRITICAL", x>>
  BY DEF ResultEvent, ScoreEvent, IncidentEvent
<1>3. RowOf(x, l).overall = Overall(checks)
  BY DEF RowOf
<1>4. ASSUME NEW e \in EventsOf(x, l), NEW y, NEW tb, e.key = <<"dq", y, tb>>
      PROVE  y = x /\ tb = l.table /\ <<RowOf(x, l).overall, e.status>> \in Grades
  <2>1. \/ e = LineageEvent(x) \/ e = res \/ e = score
        \/ \E c \in Critical(checks) : e = CheckEvent(x, c.name)
        \/ e = inc \/ e = FilesEvent(x, l.partition) \/ e = PartitionEvent(x, l.partition)
    BY DEF EventsOf
  <2>2. e = res
    <3> HIDE DEF res, score, inc
    <3>1. e # LineageEvent(x) /\ e # FilesEvent(x, l.partition) /\ e # PartitionEvent(x, l.partition)
      BY <1>4, KeysApart DEF LineageEvent, FilesEvent, PartitionEvent
    <3>2. e # score /\ e # inc
      BY <1>2, <1>4, KeysApart
    <3>3. ASSUME NEW c \in Critical(checks) PROVE e # CheckEvent(x, c.name)
      BY <1>4, KeysApart DEF CheckEvent
    <3> QED BY <2>1, <3>1, <3>2, <3>3
  <2>3. y = x /\ tb = l.table
    BY <1>2, <1>4, <2>2, KeysApart
  <2> QED BY <1>2, <1>3, <2>2, <2>3, GradesAgree
<1> HIDE DEF res, score, inc, checks
<1>5. Critical(ChecksOf(x, l)) # {} => inc \in EventsOf(x, l)
  BY <1>1 DEF checks
<1> QED BY <1>1, <1>2, <1>4, <1>5

\* What was stored of a row x has been announced in s.
RowTold(r, s) ==
  /\ \E e \in s.outbox : e.key = <<"dq", r.x, r.table>>
  /\ \E e \in s.outbox : e.key = <<"dq_score", r.x, r.table>>
  /\ r.critical => r.x \in s.told /\ \E e \in s.outbox : e.key = <<"incident", "DATA_QUALITY_CRITICAL", r.x>>

\* What has been done after n tables, when the alerts of those in lost could not be written.
Accounted(x, ls, lost, n, s) ==
  /\ results \subseteq s.results /\ told \subseteq s.told /\ outbox \subseteq s.outbox
  /\ s.told \subseteq told \union {x}
  /\ \A r \in s.results \ results : RowTold(r, s) /\ \E i \in 1..n : r = RowOf(x, ls[i])
  /\ \A e \in s.outbox \ outbox : \A y, tb : e.key = <<"dq", y, tb>> => y = x
  /\ lost = {} => \A e \in s.outbox : \A tb : e.key = <<"dq", x, tb>> =>
       \E r \in s.results : r.x = x /\ r.table = tb /\ <<r.overall, e.status>> \in Grades

\* Nothing of x was stored or announced.
Fresh(x) == (\A e \in outbox : \A tb : e.key # <<"dq", x, tb>>) /\ (\A r \in results : r.x # x)

LEMMA RowOfIs ==
  ASSUME NEW x, NEW l
  PROVE  /\ RowOf(x, l).x = x /\ RowOf(x, l).table = l.table
         /\ RowOf(x, l).critical <=> Critical(ChecksOf(x, l)) # {}
BY DEF RowOf

LEMMA StartAccounted ==
  ASSUME NEW x, NEW ls, NEW lost, Fresh(x), NEW n
  PROVE  Accounted(x, ls, lost, n, [results |-> results, told |-> told, outbox |-> outbox])
BY DEF Accounted, Fresh

LEMMA LineAccounted ==
  ASSUME NEW x, NEW ls, NEW lost, NEW n \in Nat, NEW s, Fresh(x), Accounted(x, ls, lost, n, s)
  PROVE  Accounted(x, ls, lost, n + 1, EvaluateLine(x, ls[n + 1], n + 1 \in lost, s))
<1> DEFINE l == ls[n + 1]
           raised == Critical(ChecksOf(x, l)) # {}
           undone == raised /\ n + 1 \in lost
           kept == [results |-> results, told |-> told, outbox |-> outbox]
           b == IF undone THEN kept ELSE s
           news == EventsOf(x, l)
           row == RowOf(x, l)
           z == EvaluateLine(x, l, n + 1 \in lost, s)
<1>1. Accounted(x, ls, lost, n, b)
  BY StartAccounted
<1>2. /\ z.results = IF undone THEN results ELSE b.results \union {row}
      /\ z.told = IF undone THEN told ELSE IF raised THEN b.told \union {x} ELSE b.told
      /\ z.outbox = b.outbox \union {e \in news : \A o \in b.outbox : o.key # e.key}
  BY DEF EvaluateLine, InsertedAll
<1>3. undone => b.results = results /\ b.told = told
  OBVIOUS
<1>4. /\ b.outbox \subseteq z.outbox /\ \A e \in news : \E o \in z.outbox : o.key = e.key
      /\ \A e \in z.outbox \ b.outbox : e \in news
  BY <1>2
<1>5. b.results \subseteq z.results /\ b.told \subseteq z.told /\ z.results \subseteq b.results \union {row}
      /\ z.told \subseteq b.told \union {x}
  BY <1>2, <1>3
<1>6. /\ undone \/ row \in z.results
      /\ row \in z.results \ b.results /\ raised => x \in z.told
  BY <1>2, <1>3
<1>7. undone => lost # {}
  OBVIOUS
<1>8. row.x = x /\ row.table = l.table /\ (row.critical <=> raised)
  BY RowOfIs
<1>9. /\ \E e \in news : e.key = <<"dq", x, l.table>>
      /\ \E e \in news : e.key = <<"dq_score", x, l.table>>
      /\ raised => \E e \in news : e.key = <<"incident", "DATA_QUALITY_CRITICAL", x>>
      /\ \A e \in news : \A y, tb : e.key = <<"dq", y, tb>> => y = x
      /\ \A e \in news : \A y, tb : e.key = <<"dq", y, tb>> => tb = l.table /\ <<row.overall, e.status>> \in Grades
  BY EventsOfTable
<1>10. 1..n \subseteq 1..(n + 1) /\ n + 1 \in 1..(n + 1)
  OBVIOUS
<1>11. row = RowOf(x, ls[n + 1])
  OBVIOUS
<1> HIDE DEF b, z, news, row, raised, undone, l, kept
<1>12. results \subseteq z.results /\ told \subseteq z.told /\ outbox \subseteq z.outbox
       /\ z.told \subseteq told \union {x}
  BY <1>1, <1>4, <1>5 DEF Accounted
<1>13. ASSUME NEW r \in z.results \ results PROVE RowTold(r, z) /\ \E i \in 1..(n + 1) : r = RowOf(x, ls[i])
  <2>1. CASE r \in b.results
    <3>1. RowTold(r, b) /\ \E i \in 1..n : r = RowOf(x, ls[i])
      BY <1>1, <2>1, <1>13 DEF Accounted
    <3>2. RowTold(r, z)
      BY <1>4, <1>5, <3>1 DEF RowTold
    <3> QED BY <1>10, <3>1, <3>2
  <2>2. CASE r \notin b.results
    <3>1. r = row /\ (raised => x \in z.told)
      BY <1>5, <1>6, <1>13, <2>2
    <3>2. RowTold(row, z)
      BY <1>4, <1>8, <1>9, <3>1 DEF RowTold
    <3> QED BY <1>10, <1>11, <3>1, <3>2
  <2> QED BY <2>1, <2>2
<1>14. ASSUME NEW e \in z.outbox \ outbox, NEW y, NEW tb, e.key = <<"dq", y, tb>> PROVE y = x
  <2>1. CASE e \in b.outbox
    <3>1. e \in b.outbox \ outbox
      BY <1>14, <2>1
    <3> QED BY <1>1, <1>14, <3>1 DEF Accounted
  <2>2. CASE e \notin b.outbox
    <3>1. e \in news
      BY <1>4, <1>14, <2>2
    <3> QED BY <1>9, <1>14, <3>1
  <2> QED BY <2>1, <2>2
<1>15. ASSUME lost = {}, NEW e \in z.outbox, NEW tb, e.key = <<"dq", x, tb>>
       PROVE  \E r \in z.results : r.x = x /\ r.table = tb /\ <<r.overall, e.status>> \in Grades
  <2>1. CASE e \in b.outbox
    <3>1. \E r \in b.results : r.x = x /\ r.table = tb /\ <<r.overall, e.status>> \in Grades
      BY <1>1, <1>15, <2>1 DEF Accounted
    <3> QED BY <1>5, <3>1
  <2>2. CASE e \notin b.outbox
    <3>1. tb = l.table /\ <<row.overall, e.status>> \in Grades
      BY <1>4, <1>9, <1>15, <2>2
    <3>2. row \in z.results
      BY <1>6, <1>7, <1>15
    <3> QED BY <1>8, <3>1, <3>2
  <2> QED BY <2>1, <2>2
<1>16. Accounted(x, ls, lost, n + 1, z)
  BY <1>12, <1>13, <1>14, <1>15 DEF Accounted
<1> QED BY <1>16 DEF z, l

\* What is known of each table in turn.
After(x, ls, lost, n, f) ==
  f = [i \in 0..n |-> IF i = 0 THEN [results |-> results, told |-> told, outbox |-> outbox]
                      ELSE EvaluateLine(x, ls[i], i \in lost, f[i - 1])]

LEMMA AfterExists == ASSUME NEW x, NEW ls, NEW lost PROVE \A n \in Nat : \E f : After(x, ls, lost, n, f)
<1> DEFINE T == {n \in Nat : \E f : After(x, ls, lost, n, f)}
           start == [results |-> results, told |-> told, outbox |-> outbox]
           Step(s, i) == EvaluateLine(x, ls[i], i \in lost, s)
<1>1. 0 \in T
  <2>1. After(x, ls, lost, 0, [i \in 0..0 |-> start])
    BY DEF After
  <2> QED BY <2>1
<1>2. ASSUME NEW n \in Nat, n \in T PROVE n + 1 \in T
  <2>1. PICK f : f = [i \in 0..n |-> IF i = 0 THEN start ELSE Step(f[i - 1], i)]
    BY <1>2 DEF After
  <2> DEFINE g == [i \in 0..(n + 1) |-> IF i <= n THEN f[i] ELSE Step(f[n], i)]
  <2> HIDE DEF Step, start
  <2>2. \A i \in 0..n : f[i] = IF i = 0 THEN start ELSE Step(f[i - 1], i)
    BY <2>1
  <2>3. \A i \in 0..(n + 1) : g[i] = IF i = 0 THEN start ELSE Step(g[i - 1], i)
    <3> SUFFICES ASSUME NEW i \in 0..(n + 1) PROVE g[i] = IF i = 0 THEN start ELSE Step(g[i - 1], i)
      OBVIOUS
    <3>1. CASE i = 0
      BY <3>1, <2>2
    <3>2. CASE i \in 1..n
      <4>1. g[i] = f[i] /\ g[i - 1] = f[i - 1] /\ i \in 0..n
        BY <3>2
      <4> QED BY <4>1, <2>2, <3>2
    <3>3. CASE i = n + 1
      <4>1. g[i] = Step(f[n], i) /\ g[i - 1] = f[n]
        BY <3>3
      <4> QED BY <4>1, <3>3
    <3> QED BY <3>1, <3>2, <3>3
  <2>4. g = [i \in 0..(n + 1) |-> IF i = 0 THEN start ELSE Step(g[i - 1], i)]
    BY <2>3
  <2>5. After(x, ls, lost, n + 1, g)
    BY <2>4 DEF After, Step, start
  <2> QED BY <2>5
<1> HIDE DEF T
<1>3. Nat \subseteq T
  BY <1>1, <1>2, Induct
<1> QED BY <1>3 DEF T

\* After the last table all that was stored is accounted for.
LEMMA AllAccounted ==
  ASSUME NEW x, NEW ls, Len(ls) \in Nat, NEW lost, Fresh(x), NEW f, After(x, ls, lost, Len(ls), f)
  PROVE  Accounted(x, ls, lost, Len(ls), f[Len(ls)])
<1> DEFINE N == Len(ls)
           start == [results |-> results, told |-> told, outbox |-> outbox]
           T == {n \in Nat : n <= N => Accounted(x, ls, lost, n, f[n])}
<1>1. N \in Nat
  OBVIOUS
<1>2. \A i \in 0..N : f[i] = IF i = 0 THEN start ELSE EvaluateLine(x, ls[i], i \in lost, f[i - 1])
  BY DEF After
<1>3. Accounted(x, ls, lost, 0, start)
  BY StartAccounted
<1> HIDE DEF N, start
<1>4. 0 \in T
  <2>1. 0 \in 0..N
    BY <1>1
  <2>2. f[0] = start
    BY <1>2, <2>1
  <2> QED BY <1>3, <2>2
<1>5. ASSUME NEW n \in Nat, n \in T PROVE n + 1 \in T
  <2>1. SUFFICES ASSUME n + 1 <= N PROVE Accounted(x, ls, lost, n + 1, f[n + 1])
    OBVIOUS
  <2>2. n <= N /\ n + 1 \in 0..N /\ n + 1 # 0 /\ (n + 1) - 1 = n
    BY <1>1, <2>1
  <2>3. f[n + 1] = EvaluateLine(x, ls[n + 1], n + 1 \in lost, f[n])
    BY <1>2, <2>2
  <2>4. Accounted(x, ls, lost, n, f[n])
    BY <1>5, <2>2
  <2> QED BY <2>3, <2>4, LineAccounted
<1> HIDE DEF T
<1>6. N \in T
  BY <1>1, <1>4, <1>5, Induct
<1> QED BY <1>1, <1>6 DEF T, N

\* Where a result or the event of one is, the execution has been evaluated.
Evaluated(x) == x \in Ids /\ graded[x].quality # NoGrade
GradeInv ==
  /\ graded \in Seq(GradeRow)
  /\ \A x \in Ids : graded[x].status = "queued" => graded[x].quality = NoGrade
  /\ \A r \in results : Evaluated(r.x)
  /\ \A e \in outbox : \A x, tb : e.key = <<"dq", x, tb>> => Evaluated(x)
  /\ ResultsAreAnnounced

LEMMA GradeStarts == GradeInit => GradeInv
BY DEF GradeInit, GradeInv, ResultsAreAnnounced, StoredIsAnnounced, AnnouncedIsStored, Ids, Announced

LEMMA ReportsAreSequences ==
  ASSUME NEW ls \in Report \union {<<>>} PROVE Len(ls) \in Nat /\ DOMAIN ls = 1..Len(ls)
<1> DEFINE S == {ls[i] : i \in DOMAIN ls}
<1>1. CASE ls = <<>>
  BY <1>1
<1>2. CASE ls \in Report
  <2>1. ls \in Seq(S)
    BY <1>2, QualityAssumption
  <2> HIDE DEF S
  <2> QED BY ONLY <2>1
<1> QED BY <1>1, <1>2

\* As long as what was evaluated stays as it was and no result is announced.
LEMMA EvaluatedStays ==
  ASSUME GradeInv, UNCHANGED <<results, told, emitLost>>,
         graded' \in Seq(GradeRow), Len(graded) <= Len(graded'),
         \A x \in Ids' : graded'[x].status = "queued" => graded'[x].quality = NoGrade,
         \A x \in Ids : graded[x].quality # NoGrade =>
           graded'[x].quality = graded[x].quality /\ graded'[x].lines = graded[x].lines,
         outbox \subseteq outbox', \A e \in outbox' \ outbox : \A x, tb : e.key # <<"dq", x, tb>>
  PROVE  GradeInv'
<1>1. Len(graded) \in Nat /\ Len(graded') \in Nat /\ graded \in Seq(GradeRow)
  <2> DEFINE G == GradeRow
  <2>1. graded \in Seq(G) /\ graded' \in Seq(G)
    BY DEF GradeInv
  <2> HIDE DEF G
  <2>2. Len(graded) \in Nat /\ Len(graded') \in Nat
    BY ONLY <2>1
  <2> QED BY <2>1, <2>2 DEF G
<1>2. Ids \subseteq Ids'
  BY <1>1 DEF Ids
<1>3. \A x : Evaluated(x) => x \in Ids' /\ graded'[x].quality # NoGrade
  BY <1>2 DEF Evaluated
<1>4. \A r \in results : r.x \in Ids /\ graded[r.x].quality # NoGrade
  BY DEF GradeInv, Evaluated
<1>5. \A e \in outbox' : \A x, tb : e.key = <<"dq", x, tb>> => e \in outbox /\ Evaluated(x)
  BY DEF GradeInv
<1>6. \A key : Announced(key) => (\E e \in outbox' : e.key = key)
  BY DEF Announced
<1>7. ASSUME NEW r \in results'
      PROVE  /\ \E e \in outbox', s \in results' :
                  /\ e.key = <<"dq", r.x, r.table>> /\ s.x = r.x /\ s.table = r.table
                  /\ <<s.overall, e.status>> \in Grades \/ r.x \in emitLost'
             /\ \E e \in outbox' : e.key = <<"dq_score", r.x, r.table>>
             /\ r.critical => (\E e \in outbox' : e.key = <<"incident", "DATA_QUALITY_CRITICAL", r.x>>) /\ r.x \in told'
             /\ r.overall = "fail" => graded'[r.x].quality = "fail"
  <2>1. r \in results
    BY <1>7
  <2>2. PICK e \in outbox, s \in results :
                  /\ e.key = <<"dq", r.x, r.table>> /\ s.x = r.x /\ s.table = r.table
                  /\ <<s.overall, e.status>> \in Grades \/ r.x \in emitLost
    BY <2>1 DEF GradeInv, ResultsAreAnnounced, StoredIsAnnounced
  <2>3. /\ Announced(<<"dq_score", r.x, r.table>>)
        /\ r.critical => Announced(<<"incident", "DATA_QUALITY_CRITICAL", r.x>>) /\ r.x \in told
        /\ r.overall = "fail" => graded[r.x].quality = "fail"
    BY <2>1 DEF GradeInv, ResultsAreAnnounced, StoredIsAnnounced
  <2>4. graded'[r.x].quality = graded[r.x].quality
    BY <1>4, <2>1
  <2> QED BY <1>6, <2>2, <2>3, <2>4
<1>8. ASSUME NEW x \in Ids' \ emitLost', NEW i \in DOMAIN graded'[x].lines,
             NEW e \in outbox', e.key = <<"dq", x, graded'[x].lines[i].table>>
      PROVE  \E r \in results' : r.x = x /\ r.table = graded'[x].lines[i].table
  <2>1. e \in outbox /\ x \in Ids \ emitLost /\ graded[x].quality # NoGrade
    BY <1>5, <1>8 DEF Evaluated
  <2>2. graded'[x].lines = graded[x].lines
    BY <2>1
  <2>3. i \in DOMAIN graded[x].lines /\ Announced(<<"dq", x, graded[x].lines[i].table>>)
    BY <1>8, <2>1, <2>2 DEF Announced
  <2>4. \E r \in results : r.x = x /\ r.table = graded[x].lines[i].table
    BY <2>1, <2>3 DEF GradeInv, ResultsAreAnnounced, AnnouncedIsStored
  <2> QED BY <2>2, <2>4
<1>9. ResultsAreAnnounced'
  <2>1. StoredIsAnnounced'
    BY <1>7 DEF StoredIsAnnounced, Announced
  <2>2. AnnouncedIsStored'
    BY <1>8 DEF AnnouncedIsStored, Announced
  <2> QED BY <2>1, <2>2 DEF ResultsAreAnnounced
<1>10. \A r \in results' : Evaluated(r.x)'
  BY <1>3, <1>4 DEF Evaluated
<1>11. \A e \in outbox' : \A x, tb : e.key = <<"dq", x, tb>> => x \in Ids' /\ graded'[x].quality # NoGrade
  BY <1>3, <1>5
<1> QED BY <1>9, <1>10, <1>11 DEF GradeInv, Evaluated

\* The row of an execution is written.
LEMMA GradeRowWritten ==
  ASSUME GradeInv, NEW x \in Ids, NEW row \in GradeRow, graded' = [graded EXCEPT ![x] = row]
  PROVE  /\ graded' \in Seq(GradeRow) /\ Len(graded') = Len(graded) /\ Ids' = Ids /\ graded'[x] = row
         /\ \A y \in Ids : y # x => graded'[y] = graded[y]
<1> DEFINE G == GradeRow
<1>1. graded \in Seq(G) /\ row \in G /\ x \in 1..Len(graded)
  BY DEF GradeInv, Ids
<1> HIDE DEF G
<1>2. /\ graded' \in Seq(G) /\ Len(graded') = Len(graded) /\ graded'[x] = row
      /\ \A y \in 1..Len(graded) : y # x => graded'[y] = graded[y]
  BY ONLY <1>1, graded' = [graded EXCEPT ![x] = row]
<1> QED BY <1>2 DEF G, Ids

LEMMA GradeRowRead == ASSUME GradeInv, NEW x \in Ids PROVE graded[x] \in GradeRow
<1> DEFINE G == GradeRow
<1>1. graded \in Seq(G) /\ x \in 1..Len(graded)
  BY DEF GradeInv, Ids
<1> HIDE DEF G
<1>2. graded[x] \in G
  BY ONLY <1>1
<1> QED BY <1>2 DEF G

LEMMA GradeStarted == ASSUME GradeInv, NEW k \in LoadControl, GradeStart(k) PROVE GradeInv'
<1> DEFINE row == [control |-> k, status |-> "queued", lines |-> <<>>, slow |-> FALSE, quality |-> NoGrade]
           G == GradeRow
<1>1. row \in G /\ row.quality = NoGrade
  BY DEF GradeRow
<1>2. graded \in Seq(G) /\ graded' = Append(graded, row) /\ UNCHANGED <<results, told, outbox, emitLost>>
  BY DEF GradeInv, GradeStart
<1> HIDE DEF G, row
<1>3. /\ graded' \in Seq(G) /\ Len(graded') = Len(graded) + 1 /\ Len(graded) \in Nat
      /\ graded'[Len(graded) + 1] = row
      /\ \A x \in 1..Len(graded) : graded'[x] = graded[x]
  BY ONLY <1>1, <1>2
<1>4. \A x \in Ids' : graded'[x].status = "queued" => graded'[x].quality = NoGrade
  <2>1. ASSUME NEW x \in Ids', graded'[x].status = "queued" PROVE graded'[x].quality = NoGrade
    <3>1. x \in Ids \/ x = Len(graded) + 1
      BY <1>3 DEF Ids
    <3>2. CASE x \in Ids
      BY <1>3, <2>1, <3>2 DEF Ids, GradeInv
    <3> QED BY <1>1, <1>3, <3>1, <3>2
  <2> QED BY <2>1
<1>5. graded' \in Seq(GradeRow) /\ Len(graded) <= Len(graded') /\ \A x \in Ids : graded'[x] = graded[x]
  BY <1>3 DEF G, Ids
<1> QED BY <1>2, <1>4, <1>5, EvaluatedStays

LEMMA GradeEnded ==
  ASSUME GradeInv, NEW x \in Ids, NEW ending \in {"success", "failed", "timeout"}, NEW slow \in BOOLEAN,
         NEW lines \in Report, GradeEnd(x, ending, lines, slow)
  PROVE  GradeInv'
<1> DEFINE row == [graded[x] EXCEPT !.status = ending, !.lines = lines, !.slow = slow]
<1>1. graded[x] \in GradeRow /\ graded[x].status = "queued" /\ graded[x].quality = NoGrade
  BY GradeRowRead DEF GradeEnd, GradeInv
<1>2. row \in GradeRow /\ row.status # "queued"
  BY <1>1 DEF GradeRow
<1>3. graded' = [graded EXCEPT ![x] = row] /\ UNCHANGED <<results, told, outbox, emitLost>>
  BY DEF GradeEnd
<1> HIDE DEF row
<1>4. /\ graded' \in Seq(GradeRow) /\ Len(graded') = Len(graded) /\ Ids' = Ids /\ graded'[x] = row
      /\ \A y \in Ids : y # x => graded'[y] = graded[y]
  BY <1>2, <1>3, GradeRowWritten
<1>5. \A y \in Ids' : graded'[y].status = "queued" => graded'[y].quality = NoGrade
  BY <1>2, <1>4 DEF GradeInv
<1>6. \A y \in Ids : graded[y].quality # NoGrade => graded'[y] = graded[y]
  BY <1>1, <1>4
<1>7. Len(graded) \in Nat
  BY DEF GradeInv
<1> QED BY <1>3, <1>4, <1>5, <1>6, <1>7, EvaluatedStays

LEMMA NeverGraded == ASSUME GradeInv, NEW x \in Ids, NeverEvaluated(x) PROVE GradeInv'
<1> DEFINE row == [graded[x] EXCEPT !.quality = "never"]
<1>1. graded[x] \in GradeRow /\ graded[x].status # "queued" /\ graded[x].quality = NoGrade
  BY GradeRowRead DEF NeverEvaluated
<1>2. row \in GradeRow /\ row.status # "queued"
  BY <1>1 DEF GradeRow
<1>3. graded' = [graded EXCEPT ![x] = row] /\ UNCHANGED <<results, told, outbox, emitLost>>
  BY DEF NeverEvaluated
<1> HIDE DEF row
<1>4. /\ graded' \in Seq(GradeRow) /\ Len(graded') = Len(graded) /\ Ids' = Ids /\ graded'[x] = row
      /\ \A y \in Ids : y # x => graded'[y] = graded[y]
  BY <1>2, <1>3, GradeRowWritten
<1>5. \A y \in Ids' : graded'[y].status = "queued" => graded'[y].quality = NoGrade
  BY <1>2, <1>4 DEF GradeInv
<1>6. \A y \in Ids : graded[y].quality # NoGrade => graded'[y] = graded[y]
  BY <1>1, <1>4
<1>7. Len(graded) \in Nat
  BY DEF GradeInv
<1> QED BY <1>3, <1>4, <1>5, <1>6, <1>7, EvaluatedStays

LEMMA IncidentsPublished == ASSUME GradeInv, PublishIncidents PROVE GradeInv'
<1> DEFINE news == {IncidentEvent(i[1], i[2]) : i \in IncidentsNow}
<1>1. outbox' = InsertedAll(outbox, news) /\ UNCHANGED <<graded, results, told, emitLost>>
  BY DEF PublishIncidents
<1>2. \A e \in news : \A x, tb : e.key # <<"dq", x, tb>>
  <2>1. ASSUME NEW e \in news, NEW x, NEW tb PROVE e.key # <<"dq", x, tb>>
    <3>1. PICK a, b : e = IncidentEvent(a, b)
      OBVIOUS
    <3> QED BY <3>1, KeysApart DEF IncidentEvent
  <2> QED BY <2>1
<1> HIDE DEF news
<1>3. outbox \subseteq outbox' /\ \A e \in outbox' \ outbox : \A x, tb : e.key # <<"dq", x, tb>>
  BY <1>1, <1>2 DEF InsertedAll
<1>4. Len(graded) \in Nat /\ graded \in Seq(GradeRow)
  BY DEF GradeInv
<1>5. \A x \in Ids' : graded'[x].status = "queued" => graded'[x].quality = NoGrade
  BY <1>1 DEF GradeInv, Ids
<1> QED BY <1>1, <1>3, <1>4, <1>5, EvaluatedStays

\* Only the three sets count.
LEMMA AccountedAlike ==
  ASSUME NEW x, NEW ls, NEW lost, NEW n, NEW s, NEW z, Accounted(x, ls, lost, n, s),
         z.results = s.results, z.told = s.told, z.outbox = s.outbox
  PROVE  Accounted(x, ls, lost, n, z)
<1>1. \A r : RowTold(r, s) => RowTold(r, z)
  BY DEF RowTold
<1>2. /\ results \subseteq z.results /\ told \subseteq z.told /\ outbox \subseteq z.outbox
      /\ \A r \in z.results \ results : RowTold(r, z) /\ \E i \in 1..n : r = RowOf(x, ls[i])
  BY <1>1 DEF Accounted
<1>3. /\ \A e \in z.outbox \ outbox : \A y, tb : e.key = <<"dq", y, tb>> => y = x
      /\ lost = {} => \A e \in z.outbox : \A tb : e.key = <<"dq", x, tb>> =>
           \E r \in z.results : r.x = x /\ r.table = tb /\ <<r.overall, e.status>> \in Grades
  BY DEF Accounted
<1> QED BY <1>2, <1>3 DEF Accounted

\* What one evaluation leaves: all tables accounted for, and the worst of their grades.
LEMMA EvaluationIs ==
  ASSUME GradeInv, NEW x \in Ids, NEW lost \in SUBSET (DOMAIN graded[x].lines), Evaluate(x, lost)
  PROVE  LET ls == graded[x].lines IN
         /\ Len(ls) \in Nat /\ DOMAIN ls = 1..Len(ls) /\ Fresh(x)
         /\ Accounted(x, ls, lost, Len(ls), [results |-> results', told |-> told', outbox |-> outbox'])
         /\ graded' = [graded EXCEPT ![x] = [@ EXCEPT !.quality = Worst({Overall(ChecksOf(x, ls[i])) : i \in DOMAIN ls})]]
<1> DEFINE ls == graded[x].lines
           N == Len(ls)
           f == CHOOSE g : g = [i \in 0..N |-> IF i = 0 THEN [results |-> results, told |-> told, outbox |-> outbox]
                                               ELSE EvaluateLine(x, ls[i], i \in lost, g[i - 1])]
           end == [results |-> results', told |-> told', outbox |-> outbox']
<1>1. N \in Nat /\ DOMAIN ls = 1..N
  <2>1. graded[x] \in GradeRow
    BY GradeRowRead
  <2>2. ls \in Report \union {<<>>}
    BY <2>1 DEF GradeRow
  <2> QED BY <2>2, ReportsAreSequences
<1>2. Fresh(x)
  <2>1. graded[x].quality = NoGrade /\ ~\E r \in results : r.x = x
    BY DEF Evaluate
  <2> QED BY <2>1 DEF Fresh, GradeInv, Evaluated
<1>3. results' = f[N].results /\ told' = f[N].told /\ outbox' = f[N].outbox
  BY DEF Evaluate
<1>4. graded' = [graded EXCEPT ![x].quality = Worst({Overall(ChecksOf(x, ls[i])) : i \in DOMAIN ls})]
  BY DEF Evaluate
<1>5. After(x, ls, lost, N, f)
  <2>1. \E g : After(x, ls, lost, N, g)
    BY <1>1, AfterExists
  <2> QED BY <2>1 DEF After
<1> HIDE DEF f
<1>6. Accounted(x, ls, lost, N, f[N])
  BY <1>1, <1>2, <1>5, AllAccounted
<1>7. Accounted(x, ls, lost, N, end)
  <2>1. end.results = f[N].results /\ end.told = f[N].told /\ end.outbox = f[N].outbox
    BY <1>3
  <2> HIDE DEF end
  <2> QED BY <1>6, <2>1, AccountedAlike
<1> QED BY <1>1, <1>2, <1>4, <1>7

LEMMA EvaluatedKeeps ==
  ASSUME GradeInv, NEW x \in Ids, NEW lost \in SUBSET (DOMAIN graded[x].lines), Evaluate(x, lost)
  PROVE  GradeInv'
<1> DEFINE ls == graded[x].lines
           N == Len(ls)
           grades == {Overall(ChecksOf(x, ls[i])) : i \in DOMAIN ls}
           row == [graded[x] EXCEPT !.quality = Worst(grades)]
           end == [results |-> results', told |-> told', outbox |-> outbox']
<1>1. /\ N \in Nat /\ DOMAIN ls = 1..N /\ Fresh(x) /\ Accounted(x, ls, lost, N, end)
      /\ graded' = [graded EXCEPT ![x] = row]
  BY EvaluationIs
<1>2. graded[x] \in GradeRow /\ graded[x].status # "queued" /\ graded[x].quality = NoGrade
  BY GradeRowRead DEF Evaluate
<1>3. Worst(grades) \in {"pass", "warn", "fail"} /\ ("fail" \in grades => Worst(grades) = "fail")
  BY DEF Worst
<1>4. row \in GradeRow /\ row.quality = Worst(grades) /\ row.lines = ls /\ row.status # "queued"
  <2> HIDE DEF grades
  <2> QED BY <1>2, <1>3 DEF GradeRow
<1>5. \A i \in 1..N : RowOf(x, ls[i]).overall \in grades /\ RowOf(x, ls[i]).x = x
  BY <1>1 DEF RowOf
<1>6. /\ emitLost \subseteq emitLost' /\ (lost # {} => x \in emitLost')
      /\ \A y \in emitLost' : y # x => y \in emitLost
  BY DEF Evaluate
<1>7. /\ results \subseteq results' /\ told \subseteq told' /\ outbox \subseteq outbox'
      /\ \A r \in results' \ results : RowTold(r, end) /\ \E i \in 1..N : r = RowOf(x, ls[i])
      /\ \A e \in outbox' \ outbox : \A y, tb : e.key = <<"dq", y, tb>> => y = x
      /\ lost = {} => \A e \in outbox' : \A tb : e.key = <<"dq", x, tb>> =>
           \E r \in results' : r.x = x /\ r.table = tb /\ <<r.overall, e.status>> \in Grades
  BY <1>1 DEF Accounted
<1>8. \A r : RowTold(r, end) =>
        /\ \E e \in outbox' : e.key = <<"dq", r.x, r.table>>
        /\ \E e \in outbox' : e.key = <<"dq_score", r.x, r.table>>
        /\ r.critical => r.x \in told' /\ \E e \in outbox' : e.key = <<"incident", "DATA_QUALITY_CRITICAL", r.x>>
  BY DEF RowTold
<1>9. \A r \in results : r.x \in Ids /\ graded[r.x].quality # NoGrade
  BY DEF GradeInv, Evaluated
<1> HIDE DEF row, grades, end
<1>10. /\ graded' \in Seq(GradeRow) /\ Ids' = Ids /\ graded'[x] = row
       /\ \A y \in Ids : y # x => graded'[y] = graded[y]
  BY <1>1, <1>4, GradeRowWritten
<1>11. graded'[x].quality # NoGrade /\ graded'[x].lines = ls
  BY <1>3, <1>4, <1>10 DEF NoGrade
<1>12. \A y \in Ids' : graded'[y].status = "queued" => graded'[y].quality = NoGrade
  BY <1>4, <1>10 DEF GradeInv
<1>13. \A r \in results' : r \in results \/ r.x = x
  BY <1>5, <1>7
<1>14. \A r \in results' : r.x \in Ids' /\ graded'[r.x].quality # NoGrade
  BY <1>9, <1>10, <1>11, <1>13
<1>15. \A e \in outbox' : \A y, tb : e.key = <<"dq", y, tb>> => y \in Ids' /\ graded'[y].quality # NoGrade
  <2>1. ASSUME NEW e \in outbox', NEW y, NEW tb, e.key = <<"dq", y, tb>> PROVE y \in Ids' /\ graded'[y].quality # NoGrade
    <3>1. CASE e \in outbox
      <4>1. y \in Ids /\ graded[y].quality # NoGrade
        BY <2>1, <3>1 DEF GradeInv, Evaluated
      <4> QED BY <1>2, <1>10, <4>1
    <3>2. CASE e \notin outbox
      <4>1. y = x
        BY <1>7, <2>1, <3>2
      <4> QED BY <1>10, <1>11, <4>1
    <3> QED BY <3>1, <3>2
  <2> QED BY <2>1
<1>16. StoredIsAnnounced'
  <2>1. ASSUME NEW r \in results'
        PROVE  /\ \E e \in outbox', s \in results' :
                    /\ e.key = <<"dq", r.x, r.table>> /\ s.x = r.x /\ s.table = r.table
                    /\ <<s.overall, e.status>> \in Grades \/ r.x \in emitLost'
               /\ \E e \in outbox' : e.key = <<"dq_score", r.x, r.table>>
               /\ r.critical => (\E e \in outbox' : e.key = <<"incident", "DATA_QUALITY_CRITICAL", r.x>>) /\ r.x \in told'
               /\ r.overall = "fail" => graded'[r.x].quality = "fail"
    <3>1. CASE r \in results
      <4>1. PICK e \in outbox, s \in results :
                    /\ e.key = <<"dq", r.x, r.table>> /\ s.x = r.x /\ s.table = r.table
                    /\ <<s.overall, e.status>> \in Grades \/ r.x \in emitLost
        BY <3>1 DEF GradeInv, ResultsAreAnnounced, StoredIsAnnounced
      <4>2. /\ \E o \in outbox : o.key = <<"dq_score", r.x, r.table>>
            /\ r.critical => (\E o \in outbox : o.key = <<"incident", "DATA_QUALITY_CRITICAL", r.x>>) /\ r.x \in told
            /\ r.overall = "fail" => graded[r.x].quality = "fail"
        BY <3>1 DEF GradeInv, ResultsAreAnnounced, StoredIsAnnounced, Announced
      <4>3. graded'[r.x] = graded[r.x]
        BY <1>2, <1>9, <1>10, <3>1
      <4> QED BY <1>6, <1>7, <4>1, <4>2, <4>3
    <3>2. CASE r \notin results
      <4>1. RowTold(r, end) /\ r.x = x /\ r.overall \in grades
        BY <1>5, <1>7, <2>1, <3>2
      <4>2. PICK e \in outbox' : e.key = <<"dq", r.x, r.table>>
        BY <1>8, <4>1
      <4>3. \E s \in results' : /\ s.x = r.x /\ s.table = r.table
                                /\ <<s.overall, e.status>> \in Grades \/ r.x \in emitLost'
        <5>1. CASE lost = {}
          BY <1>7, <4>1, <4>2, <5>1
        <5>2. CASE lost # {}
          BY <1>6, <2>1, <4>1, <5>2
        <5> QED BY <5>1, <5>2
      <4>4. r.overall = "fail" => graded'[r.x].quality = "fail"
        BY <1>3, <1>4, <1>10, <4>1
      <4> QED BY <1>8, <4>1, <4>2, <4>3, <4>4
    <3> QED BY <3>1, <3>2
  <2> QED BY <2>1 DEF StoredIsAnnounced, Announced
<1>17. AnnouncedIsStored'
  <2>1. ASSUME NEW y \in Ids' \ emitLost', NEW i \in DOMAIN graded'[y].lines,
               NEW e \in outbox', e.key = <<"dq", y, graded'[y].lines[i].table>>
        PROVE  \E r \in results' : r.x = y /\ r.table = graded'[y].lines[i].table
    <3>1. CASE y = x
      <4>1. lost = {}
        BY <1>6, <2>1, <3>1
      <4> DEFINE tb == graded'[y].lines[i].table
      <4>2. e.key = <<"dq", x, tb>>
        BY <2>1, <3>1
      <4> HIDE DEF tb
      <4>3. \E r \in results' : r.x = x /\ r.table = tb
        BY <1>7, <2>1, <4>1, <4>2
      <4> QED BY <3>1, <4>3 DEF tb
    <3>2. CASE y # x
      <4>1. e \in outbox
        BY <1>7, <2>1, <3>2
      <4>2. y \in Ids \ emitLost /\ graded'[y] = graded[y]
        BY <1>6, <1>10, <2>1, <3>2
      <4>3. \E r \in results : r.x = y /\ r.table = graded[y].lines[i].table
        BY <2>1, <4>1, <4>2 DEF GradeInv, ResultsAreAnnounced, AnnouncedIsStored, Announced
      <4> QED BY <1>7, <4>2, <4>3
    <3> QED BY <3>1, <3>2
  <2> QED BY <2>1 DEF AnnouncedIsStored, Announced
<1> QED BY <1>10, <1>12, <1>14, <1>15, <1>16, <1>17 DEF GradeInv, Evaluated, ResultsAreAnnounced

LEMMA GradesKept == ASSUME GradeInv, [GradeNext]_gradedVars PROVE GradeInv'
<1>1. CASE UNCHANGED gradedVars
  <2>1. UNCHANGED <<graded, results, told, outbox, emitLost>> /\ Ids' = Ids
    BY <1>1 DEF gradedVars, Ids
  <2>2. Len(graded) \in Nat /\ graded \in Seq(GradeRow)
    BY DEF GradeInv
  <2> QED BY <2>1, <2>2, EvaluatedStays DEF GradeInv
<1> QED BY <1>1, GradeStarted, GradeEnded, EvaluatedKeeps, NeverGraded, IncidentsPublished DEF GradeNext

\* The results of the checks that are stored and what t2c_data is told of them agree, for any number
\* of executions and tables, however many alerts are lost and whoever announces incidents meanwhile
\* (evaluate_execution, emit_quality_for_execution).
THEOREM QualityIsAnnounced == GradeSpec => []ResultsAreAnnounced
<1>1. GradeInit => GradeInv
  BY GradeStarts
<1>2. GradeInv /\ [GradeNext]_gradedVars => GradeInv'
  BY GradesKept
<1>3. GradeInv => ResultsAreAnnounced
  BY DEF GradeInv
<1> QED BY <1>1, <1>2, <1>3, PTL DEF GradeSpec

\* Results, alerts and lost alerts are of executions that are there.
LEMMA GradeTypesKept ==
  ASSUME GradeInv, GradeTypeOK, [GradeNext]_gradedVars PROVE GradeTypeOK'
<1>1. graded' \in Seq(GradeRow) /\ \A x \in Ids' : graded'[x] \in GradeRow
  <2>1. graded' \in Seq(GradeRow)
    BY GradesKept DEF GradeInv
  <2> QED BY <2>1 DEF Ids
<1>2. SUFFICES /\ Ids \subseteq Ids'
               /\ \A r \in results' \ results : r.x \in Ids /\ r.overall \in {"pass", "warn", "fail"}
               /\ told' \subseteq told \union Ids /\ emitLost' \subseteq emitLost \union Ids
  BY <1>1 DEF GradeTypeOK, GradeRow
<1>3. Len(graded) \in Nat /\ graded \in Seq(GradeRow)
  BY DEF GradeInv
<1>4. CASE UNCHANGED gradedVars
  BY <1>4 DEF gradedVars, Ids
<1>5. ASSUME NEW k \in LoadControl, GradeStart(k) PROVE Ids \subseteq Ids' /\ UNCHANGED <<results, told, emitLost>>
  BY <1>3, <1>5 DEF GradeStart, Ids
<1>6. ASSUME NEW x \in Ids, NEW ending, NEW slow, NEW lines, GradeEnd(x, ending, lines, slow)
      PROVE  Ids' = Ids /\ UNCHANGED <<results, told, emitLost>>
  BY <1>3, <1>6 DEF GradeEnd, Ids
<1>7. ASSUME NEW x \in Ids, NeverEvaluated(x) PROVE Ids' = Ids /\ UNCHANGED <<results, told, emitLost>>
  BY <1>3, <1>7 DEF NeverEvaluated, Ids
<1>8. ASSUME PublishIncidents PROVE Ids' = Ids /\ UNCHANGED <<results, told, emitLost>>
  BY <1>8 DEF PublishIncidents, Ids
<1>9. ASSUME NEW x \in Ids, NEW lost \in SUBSET (DOMAIN graded[x].lines), Evaluate(x, lost)
      PROVE  /\ Ids' = Ids
             /\ \A r \in results' \ results : r.x \in Ids /\ r.overall \in {"pass", "warn", "fail"}
             /\ told' \subseteq told \union Ids /\ emitLost' \subseteq emitLost \union Ids
  <2> DEFINE ls == graded[x].lines
             end == [results |-> results', told |-> told', outbox |-> outbox']
  <2>1. Accounted(x, ls, lost, Len(ls), end)
    BY <1>9, EvaluationIs
  <2>2. \A i : RowOf(x, ls[i]).x = x /\ RowOf(x, ls[i]).overall \in {"pass", "warn", "fail"}
    BY DEF RowOf, Overall
  <2>3. Len(graded') = Len(graded)
    BY <1>3, <1>9 DEF Evaluate
  <2>4. emitLost' \subseteq emitLost \union {x}
    BY <1>9 DEF Evaluate
  <2>5. \A r \in results' \ results : \E i \in 1..Len(ls) : r = RowOf(x, ls[i])
    BY <2>1 DEF Accounted
  <2>6. told' \subseteq told \union {x}
    BY <2>1 DEF Accounted
  <2> QED BY <2>2, <2>3, <2>4, <2>5, <2>6 DEF Ids
<1> QED BY <1>4, <1>5, <1>6, <1>7, <1>8, <1>9 DEF GradeNext

\* Results, alerts and the history of lost alerts are of executions there are, and a grade is one of
\* those the code gives (evaluate_execution, emit_quality_for_execution).
THEOREM GradesTypeCorrect == GradeSpec => []GradeTypeOK
<1>1. GradeInit => GradeInv /\ GradeTypeOK
  BY GradeStarts DEF GradeInit, GradeTypeOK, Ids
<1>2. GradeInv /\ GradeTypeOK /\ [GradeNext]_gradedVars => GradeInv' /\ GradeTypeOK'
  BY GradesKept, GradeTypesKept
<1> QED BY <1>1, <1>2, PTL DEF GradeSpec

-----------------------------------------------------------------------------
(* The catalog of the Data Lake: the first event of a key is of the        *)
(* discovery, so whatever is inserted later under that key is not stored.  *)

CatalogInv ==
  /\ scan \subseteq SUBSET LakeTable
  /\ {bucket, catalog} \subseteq [LakeTable -> Hash \union {Absent, Bare}]
  /\ \A e \in schemaEvents : e.type = "SCHEMA_DISCOVERED"
  /\ ShownIsAnnounced

LEMMA CatalogStarts == CatalogInit => CatalogInv
BY DEF CatalogInit, CatalogInv, ShownIsAnnounced, Stored

\* What one table adds: its discovery, or nothing.
LEMMA OnlyDiscoveries ==
  ASSUME NEW events, \A e \in events : e.type = "SCHEMA_DISCOVERED", NEW t, NEW hash, NEW previous
  PROVE  /\ PublishSchemaEvents(events, t, hash, previous) = Inserted(events, SchemaEvent("SCHEMA_DISCOVERED", t, hash))
         /\ \A e \in PublishSchemaEvents(events, t, hash, previous) : e.type = "SCHEMA_DISCOVERED"
         /\ \E e \in PublishSchemaEvents(events, t, hash, previous) :
              e.key = <<"schema", t, hash>> /\ e.type = "SCHEMA_DISCOVERED"
<1> DEFINE ev(type) == SchemaEvent(type, t, hash)
           key == <<"schema", t, hash>>
           D == Inserted(events, ev("SCHEMA_DISCOVERED"))
<1>1. \A type : ev(type).key = key /\ ev(type).type = type
  BY DEF SchemaEvent
<1> HIDE DEF key
<1>2. (\E e \in D : e.key = key) /\ \A e \in D : e.type = "SCHEMA_DISCOVERED"
  <2> HIDE DEF ev
  <2> QED BY <1>1 DEF Inserted
<1>3. Inserted(D, ev("COLUMNS_DISCOVERED")) = D /\ Inserted(D, ev("SCHEMA_CHANGED")) = D
  <2> HIDE DEF ev, D
  <2> QED BY <1>1, <1>2 DEF Inserted
<1>4. PublishSchemaEvents(events, t, hash, previous) = D
  BY <1>3 DEF PublishSchemaEvents
<1>5. D = Inserted(events, SchemaEvent("SCHEMA_DISCOVERED", t, hash))
  OBVIOUS
<1> HIDE DEF D
<1> QED BY <1>2, <1>4, <1>5 DEF key

LEMMA Persisted ==
  ASSUME CatalogInv, NEW listed \in scan, NEW unreadable, PersistScan(listed, unreadable)
  PROVE  CatalogInv'
<1> DEFINE added(t) == PublishSchemaEvents(schemaEvents, t, Inferred(t, unreadable), catalog[t])
<1>1. listed \subseteq LakeTable /\ \A e \in schemaEvents : e.type = "SCHEMA_DISCOVERED"
  BY DEF CatalogInv
<1>2. \A t \in listed : /\ \A e \in added(t) : e.type = "SCHEMA_DISCOVERED"
                        /\ \E e \in added(t) : e.key = <<"schema", t, Inferred(t, unreadable)>>
                                              /\ e.type = "SCHEMA_DISCOVERED"
  BY <1>1, OnlyDiscoveries
<1>3. /\ schemaEvents' = schemaEvents \union UNION {added(t) : t \in listed}
      /\ catalog' = [t \in LakeTable |-> IF t \in listed THEN Inferred(t, unreadable) ELSE Absent]
      /\ scan' = {}
  BY DEF PersistScan
<1> HIDE DEF added
<1>4. \A e \in schemaEvents' : e.type = "SCHEMA_DISCOVERED"
  BY <1>1, <1>2, <1>3
<1>5. ShownIsAnnounced'
  <2>1. ASSUME NEW t \in LakeTable, catalog'[t] # Absent
        PROVE  \E e \in schemaEvents' : e.key = <<"schema", t, catalog'[t]>> /\ e.type = "SCHEMA_DISCOVERED"
    <3>1. t \in listed /\ catalog'[t] = Inferred(t, unreadable)
      BY <1>3, <2>1
    <3>2. PICK e \in added(t) : e.key = <<"schema", t, Inferred(t, unreadable)>> /\ e.type = "SCHEMA_DISCOVERED"
      BY <1>2, <3>1
    <3>3. e \in schemaEvents'
      BY <1>3, <3>1, <3>2
    <3> QED BY <3>1, <3>2, <3>3
  <2> QED BY <2>1 DEF ShownIsAnnounced, Stored, AnnouncedAs
<1>6. {bucket', catalog'} \subseteq [LakeTable -> Hash \union {Absent, Bare}]
  BY <1>3 DEF Inferred, CatalogInv, PersistScan
<1> QED BY <1>3, <1>4, <1>5, <1>6 DEF CatalogInv

LEMMA CatalogKept == ASSUME CatalogInv, [CatalogNext]_catalogVars PROVE CatalogInv'
<1>1. CASE \E t \in LakeTable, schema \in Hash \union {Bare, Absent} : BucketChanges(t, schema)
  <2>1. UNCHANGED <<scan, catalog, schemaEvents>> /\ bucket' \in [LakeTable -> Hash \union {Absent, Bare}]
    BY <1>1 DEF BucketChanges, CatalogInv
  <2> QED BY <2>1 DEF CatalogInv, ShownIsAnnounced, Stored, AnnouncedAs
<1>2. CASE ListTables \/ ScanFails \/ UNCHANGED catalogVars
  <2>1. UNCHANGED <<bucket, catalog, schemaEvents>> /\ scan' \subseteq SUBSET LakeTable
    BY <1>2 DEF ListTables, ScanFails, catalogVars, CatalogInv
  <2> QED BY <2>1 DEF CatalogInv, ShownIsAnnounced, Stored, AnnouncedAs
<1>3. CASE \E listed \in scan : \E unreadable \in SUBSET listed : PersistScan(listed, unreadable)
  BY <1>3, Persisted
<1> QED BY <1>1, <1>2, <1>3 DEF CatalogNext

\* t2c_data is told of every schema that the catalog shows, for any number of tables and schemas,
\* however the bucket changes between the listing, the reads and the next scan (_persist_scan,
\* _publish_schema_events).
THEOREM CatalogIsAnnounced == CatalogSpec => []ShownIsAnnounced
<1>1. CatalogInit => CatalogInv
  BY CatalogStarts
<1>2. CatalogInv /\ [CatalogNext]_catalogVars => CatalogInv'
  BY CatalogKept
<1>3. CatalogInv => ShownIsAnnounced
  BY DEF CatalogInv
<1> QED BY <1>1, <1>2, <1>3, PTL DEF CatalogSpec

\* What the catalog shows of a table is a schema, that its files have none, or that it is absent, and
\* what a scan listed is a set of tables (scan_catalog, _persist_scan).
THEOREM CatalogTypeCorrect == CatalogSpec => []CatalogTypeOK
<1>1. CatalogInit => CatalogInv
  BY CatalogStarts
<1>2. CatalogInv /\ [CatalogNext]_catalogVars => CatalogInv'
  BY CatalogKept
<1>3. CatalogInv => CatalogTypeOK
  BY DEF CatalogInv, CatalogTypeOK
<1> QED BY <1>1, <1>2, <1>3, PTL DEF CatalogSpec

-----------------------------------------------------------------------------
(* Libraries: only the worker's own job touches what pip has installed, and *)
(* the row of the library says what it did.                                 *)

QueueRow == [kind : Kinds, lib : Library \union {NoLibrary}, of : Nat,
             status : {"queued", "running", "success", "failed"}]
\* Only an action of a library has one.
LibraryOfAction(rows) == \A i \in DOMAIN rows : rows[i].lib \in Library <=> rows[i].kind \in LibraryActions
LibrariesInv ==
  /\ jobs \in Seq(QueueRow) /\ LibraryOfAction(jobs)
  /\ runner \in 0..Len(jobs)
  /\ library \in [Library -> {"absent", "queued", "installing", "installed", "failed", "removed"}]
  /\ LibraryTellsTheTruth

LEMMA LibrariesInit == QueuesInit => LibrariesInv
BY DEF QueuesInit, LibrariesInv, LibraryOfAction, LibraryTellsTheTruth, QueueRow

\* A row is queued at the end: what the worker runs stays where it is.
LEMMA QueuedLast ==
  ASSUME LibrariesInv, NEW kind \in Kinds, NEW l \in Library \union {NoLibrary}, NEW of \in Nat,
         Queue(kind, l, of), l \in Library <=> kind \in LibraryActions
  PROVE  /\ jobs' \in Seq(QueueRow) /\ LibraryOfAction(jobs') /\ runner \in 0..Len(jobs')
         /\ runner # 0 => jobs'[runner] = jobs[runner]
<1> DEFINE row == [kind |-> kind, lib |-> l, of |-> of, status |-> "queued"]
<1>1. row \in QueueRow /\ row.lib = l /\ row.kind = kind
  BY DEF QueueRow
<1>2. jobs' = Append(jobs, row)
  BY DEF Queue
<1> HIDE DEF row
<1>3. jobs \in Seq(QueueRow) /\ runner \in 0..Len(jobs)
  BY DEF LibrariesInv
<1>4. /\ jobs' \in Seq(QueueRow) /\ Len(jobs') = Len(jobs) + 1 /\ jobs'[Len(jobs) + 1] = row
      /\ \A i \in 1..Len(jobs) : jobs'[i] = jobs[i]
  BY ONLY <1>1, <1>2, <1>3
<1>5. DOMAIN jobs = 1..Len(jobs) /\ DOMAIN jobs' = 1..(Len(jobs) + 1) /\ Len(jobs) \in Nat
  BY ONLY <1>3, <1>4
<1>6. LibraryOfAction(jobs')
  <2>1. ASSUME NEW i \in DOMAIN jobs' PROVE jobs'[i].lib \in Library <=> jobs'[i].kind \in LibraryActions
    <3>1. CASE i = Len(jobs) + 1
      BY <1>1, <1>4, <3>1
    <3>2. CASE i # Len(jobs) + 1
      <4>1. i \in DOMAIN jobs /\ jobs'[i] = jobs[i]
        BY <1>4, <1>5, <3>2
      <4> QED BY <4>1 DEF LibrariesInv, LibraryOfAction
    <3> QED BY <3>1, <3>2
  <2> QED BY <2>1 DEF LibraryOfAction
<1> QED BY <1>3, <1>4, <1>5, <1>6

LEMMA KindsOf ==
  /\ LibraryActions \subseteq Kinds /\ {"build", "libraries", "distributed", "apply", "scan", "query"} \subseteq Kinds
  /\ \A kind \in {"build", "libraries", "distributed", "apply", "scan", "query"} : kind \notin LibraryActions
  /\ NoLibrary \notin Library
BY QueuesAssumption DEF Kinds, LibraryActions, NoLibrary

\* What is listed stays true when nothing is installed or removed.
LEMMA RequestsTell ==
  ASSUME LibrariesInv, jobs' \in Seq(QueueRow), LibraryOfAction(jobs'), runner \in 0..Len(jobs'),
         runner # 0 => jobs'[runner].lib = jobs[runner].lib,
         UNCHANGED <<present, runner, broken>>,
         library' \in [Library -> {"absent", "queued", "installing", "installed", "failed", "removed"}],
         \A l \in Library : library'[l] = library[l] \/ library'[l] \in {"queued", "installing"}
  PROVE  LibrariesInv'
BY DEF LibrariesInv, LibraryTellsTheTruth, Running

LEMMA LibraryRequested ==
  ASSUME LibrariesInv, NEW l \in Library, NEW action \in LibraryActions, RequestLibrary(l, action)
  PROVE  LibrariesInv'
<1>1. /\ jobs' \in Seq(QueueRow) /\ LibraryOfAction(jobs') /\ runner \in 0..Len(jobs')
      /\ runner # 0 => jobs'[runner] = jobs[runner]
  BY QueuedLast, KindsOf, 0 \in Nat DEF RequestLibrary
<1> QED BY <1>1, RequestsTell DEF RequestLibrary, LibrariesInv

LEMMA RuntimeRequested ==
  ASSUME LibrariesInv, (\E kind \in Kinds : RequestRuntime(kind)) \/ RequestScan
  PROVE  LibrariesInv'
<1>1. PICK kind \in {"build", "libraries", "distributed", "apply", "scan", "query"}, of \in Nat :
        Queue(kind, NoLibrary, of)
  BY 0 \in Nat DEF RequestRuntime, RequestScan, ActiveBuilds, Built, Jobs
<1>2. /\ jobs' \in Seq(QueueRow) /\ LibraryOfAction(jobs') /\ runner \in 0..Len(jobs')
      /\ runner # 0 => jobs'[runner] = jobs[runner]
  BY <1>1, QueuedLast, KindsOf
<1>3. UNCHANGED <<present, runner, broken, library>>
  BY DEF RequestRuntime, RequestScan
<1> QED BY <1>2, <1>3, RequestsTell DEF LibrariesInv

LEMMA BecameTypes ==
  ASSUME LibrariesInv, NEW i \in Jobs, NEW stage \in {"running", "success", "failed"}, Became(i, stage)
  PROVE  /\ jobs' \in Seq(QueueRow) /\ LibraryOfAction(jobs') /\ Len(jobs') = Len(jobs)
         /\ \A k \in Jobs : jobs'[k].lib = jobs[k].lib /\ jobs'[k].kind = jobs[k].kind
<1>1. jobs \in Seq(QueueRow) /\ i \in 1..Len(jobs) /\ DOMAIN jobs = 1..Len(jobs)
  BY DEF LibrariesInv, Jobs
<1>2. jobs[i] \in QueueRow
  BY ONLY <1>1
<1> DEFINE row == [jobs[i] EXCEPT !.status = stage]
<1>3. row \in QueueRow /\ row.lib = jobs[i].lib /\ row.kind = jobs[i].kind
  BY <1>2 DEF QueueRow
<1>4. jobs' = [jobs EXCEPT ![i] = row]
  BY DEF Became
<1> HIDE DEF row
<1>5. jobs' \in Seq(QueueRow) /\ Len(jobs') = Len(jobs) /\ DOMAIN jobs' = DOMAIN jobs
  BY ONLY <1>1, <1>3, <1>4
<1>6. \A k \in Jobs : jobs'[k].lib = jobs[k].lib /\ jobs'[k].kind = jobs[k].kind
  BY <1>1, <1>3, <1>4 DEF Jobs
<1> QED BY <1>1, <1>5, <1>6 DEF LibraryOfAction, LibrariesInv, Jobs

LEMMA TakenTells == ASSUME LibrariesInv, Take PROVE LibrariesInv'
<1>1. NextJobs \subseteq Jobs
  BY DEF NextJobs, Oldest, Waiting
<1>2. PICK i \in NextJobs :
        /\ runner' = i /\ Became(i, "running")
        /\ library' = IF jobs[i].kind \in {"install", "reinstall"}
                      THEN [library EXCEPT ![jobs[i].lib] = "installing"] ELSE library
  BY DEF Take
<1>3. i \in Jobs /\ i \in 0..Len(jobs) /\ i # 0
  BY <1>1 DEF Jobs
<1>4. /\ jobs' \in Seq(QueueRow) /\ LibraryOfAction(jobs') /\ Len(jobs') = Len(jobs)
      /\ jobs'[i].lib = jobs[i].lib
  BY <1>2, <1>3, BecameTypes
<1>5. runner = 0 /\ UNCHANGED <<present, broken>>
  BY DEF Take
<1>6. /\ library' \in [Library -> {"absent", "queued", "installing", "installed", "failed", "removed"}]
      /\ \A l \in Library : library'[l] = library[l] \/ library'[l] = "installing"
  BY <1>2 DEF LibrariesInv
<1>7. LibraryTellsTheTruth'
  BY <1>5, <1>6 DEF LibrariesInv, LibraryTellsTheTruth, Running
<1> QED BY <1>2, <1>3, <1>4, <1>5, <1>6, <1>7 DEF LibrariesInv

\* pip installs or removes the library of the job, and none else.
LEMMA PipTouchesItsOwn ==
  ASSUME LibrariesInv, runner # 0, NEW ok \in BOOLEAN, Effect(runner, ok)
  PROVE  /\ runner \in Jobs
         /\ \A l \in Library \ {jobs[runner].lib} : l \in present' <=> l \in present
         /\ jobs[runner].kind \notin LibraryActions => present' = present
         /\ ok /\ jobs[runner].kind \in {"install", "reinstall"} => jobs[runner].lib \in present'
         /\ ok /\ jobs[runner].kind = "uninstall" => jobs[runner].lib \notin present'
BY DEF Effect, LibrariesInv, Jobs, LibraryActions

LEMMA FinishedTells == ASSUME LibrariesInv, Finish PROVE LibrariesInv'
<1> DEFINE its == jobs[runner].lib
           kind == jobs[runner].kind
<1>1. runner # 0 /\ runner' = 0 /\ UNCHANGED broken
  BY DEF Finish
<1>2. PICK ok \in BOOLEAN :
        /\ Effect(runner, ok)
        /\ Became(runner, IF ok THEN "success" ELSE "failed")
        /\ library' = IF kind \in LibraryActions
                      THEN [library EXCEPT ![its] = Finalized(@, kind, ok)] ELSE library
  BY DEF Finish
<1>3. runner \in Jobs
  BY <1>1, <1>2, PipTouchesItsOwn
<1>4. jobs' \in Seq(QueueRow) /\ LibraryOfAction(jobs') /\ Len(jobs') = Len(jobs)
  BY <1>2, <1>3, BecameTypes
<1>5. its \in Library <=> kind \in LibraryActions
  BY <1>3 DEF LibrariesInv, LibraryOfAction, Jobs
<1>6. \A l \in Library \ {its} : library'[l] = library[l]
  BY <1>2, <1>5 DEF LibrariesInv
<1>7. kind \in LibraryActions => library'[its] = Finalized(library[its], kind, ok)
  BY <1>2, <1>5 DEF LibrariesInv
<1>8. library' \in [Library -> {"absent", "queued", "installing", "installed", "failed", "removed"}]
  BY <1>2, <1>5 DEF LibrariesInv, Finalized
<1>9. \A l \in Library \ {its} : ~Running(l)
  BY DEF Running
<1>10. ASSUME NEW l \in Library \ broken
       PROVE  /\ library'[l] = "installed" => l \in present'
              /\ library'[l] = "removed" => l \notin present'
  <2>1. CASE l # its
    BY <1>1, <1>2, <1>6, <1>9, <2>1, PipTouchesItsOwn DEF LibrariesInv, LibraryTellsTheTruth
  <2>2. CASE l = its
    <3>1. kind \in LibraryActions
      BY <1>5, <2>2
    <3> QED BY <1>1, <1>2, <1>7, <2>2, <3>1, PipTouchesItsOwn DEF Finalized, LibraryActions
  <2> QED BY <2>1, <2>2
<1> QED BY <1>1, <1>4, <1>8, <1>10 DEF LibrariesInv, LibraryTellsTheTruth

LEMMA StoppedTells == ASSUME LibrariesInv, Stop PROVE LibrariesInv'
<1> DEFINE its == jobs[runner].lib
<1>1. /\ runner # 0 /\ runner' = 0 /\ UNCHANGED <<jobs, library>>
      /\ \E ok \in BOOLEAN : Effect(runner, ok)
      /\ broken' = IF jobs[runner].kind \in LibraryActions THEN broken \union {its} ELSE broken
  BY DEF Stop
<1>2. /\ runner \in Jobs /\ \A l \in Library \ {its} : l \in present' <=> l \in present
  BY <1>1, PipTouchesItsOwn
<1>3. its \in Library <=> jobs[runner].kind \in LibraryActions
  BY <1>2 DEF LibrariesInv, LibraryOfAction, Jobs
<1>4. ASSUME NEW l \in Library \ broken' PROVE l \notin broken /\ l # its
  BY <1>1, <1>3
<1>5. LibraryTellsTheTruth'
  <2>1. \A l \in Library \ broken' : ~Running(l)
    BY <1>4 DEF Running
  <2> QED BY <1>1, <1>2, <1>4, <2>1 DEF LibrariesInv, LibraryTellsTheTruth
<1> QED BY <1>1, <1>5, 0 \in Nat DEF LibrariesInv

LEMMA LibrariesKept == ASSUME LibrariesInv, [QueuesNext]_queueVars PROVE LibrariesInv'
<1>1. CASE UNCHANGED queueVars
  BY <1>1 DEF queueVars, LibrariesInv, LibraryTellsTheTruth, Running
<1>2. CASE (\E b \in Built : Activate(b)) \/ (\E a \in activating : ActivateCommits(a))
  <2>1. UNCHANGED <<jobs, library, present, runner, broken>>
    BY <1>2 DEF Activate, ActivateCommits
  <2> QED BY <2>1 DEF LibrariesInv, LibraryTellsTheTruth, Running
<1> QED BY <1>1, <1>2, LibraryRequested, RuntimeRequested, TakenTells, FinishedTells, StoppedTells
        DEF QueuesNext

\* A library that is listed as installed is there and one listed as removed is not, however many of
\* its actions were queued behind each other, unless one runs or was interrupted (run_action,
\* _finalize_library).
THEOREM LibrariesAreTrue == QueuesSpec => []LibraryTellsTheTruth
<1>1. QueuesInit => LibrariesInv
  BY LibrariesInit
<1>2. LibrariesInv /\ [QueuesNext]_queueVars => LibrariesInv'
  BY LibrariesKept
<1>3. LibrariesInv => LibraryTellsTheTruth
  BY DEF LibrariesInv
<1> QED BY <1>1, <1>2, <1>3, PTL DEF QueuesSpec

-----------------------------------------------------------------------------
(* The image: what is active, or about to be, and what the tag names were  *)
(* built; a build that succeeded is run by no job any more.                *)

ImageInv ==
  /\ LibrariesInv
  /\ runner # 0 => jobs[runner].status = "running"
  /\ build \subseteq Built /\ image \in Built \union {0}
  /\ \A a \in activating : a.build \in Built

\* No step takes a build back.
LEMMA QueuedAfterBuilt ==
  ASSUME LibrariesInv, NEW kind, NEW l, NEW of, Queue(kind, l, of)
  PROVE  Built \subseteq Built' /\ (runner # 0 => jobs'[runner] = jobs[runner])
<1> DEFINE row == [kind |-> kind, lib |-> l, of |-> of, status |-> "queued"]
<1>1. jobs' = Append(jobs, row)
  BY DEF Queue
<1> HIDE DEF row
<1>2. jobs \in Seq(QueueRow) /\ runner \in 0..Len(jobs)
  BY DEF LibrariesInv
<1>3. Len(jobs) \in Nat /\ Len(jobs') = Len(jobs) + 1 /\ \A i \in 1..Len(jobs) : jobs'[i] = jobs[i]
  BY ONLY <1>1, <1>2
<1> QED BY <1>2, <1>3 DEF Built, Jobs

LEMMA BecameAfterBuilt ==
  ASSUME LibrariesInv, NEW i \in Jobs, jobs[i].status # "success", NEW stage, Became(i, stage)
  PROVE  Built \subseteq Built' /\ jobs'[i].status = stage
<1>1. jobs \in Seq(QueueRow) /\ i \in 1..Len(jobs)
  BY DEF LibrariesInv, Jobs
<1>2. jobs[i] \in QueueRow
  BY ONLY <1>1
<1> DEFINE row == [jobs[i] EXCEPT !.status = stage]
<1>3. row.status = stage
  BY <1>2 DEF QueueRow
<1>4. jobs' = [jobs EXCEPT ![i] = row]
  BY DEF Became
<1> HIDE DEF row
<1>5. Len(jobs') = Len(jobs) /\ jobs'[i] = row /\ \A k \in 1..Len(jobs) : k # i => jobs'[k] = jobs[k]
  BY ONLY <1>1, <1>4
<1> QED BY <1>3, <1>5 DEF Built, Jobs

LEMMA ImageKept == ASSUME ImageInv, [QueuesNext]_queueVars PROVE ImageInv'
<1>1. LibrariesInv /\ LibrariesInv'
  BY LibrariesKept DEF ImageInv
<1>2. CASE UNCHANGED queueVars
  BY <1>1, <1>2 DEF queueVars, ImageInv, Built, Jobs
<1>3. ASSUME NEW kind, NEW l, NEW of, Queue(kind, l, of), UNCHANGED <<build, image, activating, runner>>
      PROVE  ImageInv'
  BY <1>1, <1>3, QueuedAfterBuilt DEF ImageInv
<1>4. ASSUME NEW l \in Library, NEW action \in LibraryActions, RequestLibrary(l, action) PROVE ImageInv'
  BY <1>3, <1>4 DEF RequestLibrary
<1>5. ASSUME (\E kind \in Kinds : RequestRuntime(kind)) \/ RequestScan PROVE ImageInv'
  BY <1>3, <1>5 DEF RequestRuntime, RequestScan
<1>6. ASSUME NEW b \in Built, Activate(b) PROVE ImageInv'
  <2>1. /\ UNCHANGED <<jobs, build, image, runner>>
        /\ activating' = activating \union {[build |-> b, seen |-> build \ {b}]}
    BY <1>6 DEF Activate
  <2> QED BY <1>1, <2>1 DEF ImageInv, Built, Jobs
<1>7. ASSUME NEW a \in activating, ActivateCommits(a) PROVE ImageInv'
  BY <1>1, <1>7 DEF ActivateCommits, ImageInv, Built, Jobs
<1>8. CASE Take
  <2>1. PICK i \in NextJobs : runner' = i /\ Became(i, "running")
    BY <1>8 DEF Take
  <2>2. i \in Jobs /\ jobs[i].status = "queued"
    BY DEF NextJobs, Oldest, Waiting
  <2>3. Built \subseteq Built' /\ jobs'[i].status = "running"
    BY <1>1, <2>1, <2>2, BecameAfterBuilt
  <2>4. UNCHANGED <<build, image, activating>>
    BY <1>8 DEF Take
  <2> QED BY <1>1, <2>1, <2>3, <2>4 DEF ImageInv
<1>9. CASE Finish
  <2>1. PICK ok \in BOOLEAN : Effect(runner, ok) /\ Became(runner, IF ok THEN "success" ELSE "failed")
    BY <1>9 DEF Finish
  <2>2. runner # 0 /\ runner' = 0 /\ UNCHANGED <<build, activating>>
    BY <1>9 DEF Finish
  <2>3. runner \in Jobs /\ jobs[runner].status = "running"
    BY <1>1, <2>2 DEF ImageInv, LibrariesInv, Jobs
  <2>4. Built \subseteq Built'
    BY <1>1, <2>1, <2>3, BecameAfterBuilt
  <2>5. image' \in Built \union {0}
    BY <2>1 DEF Effect, ImageInv, ActiveBuilds
  <2> QED BY <1>1, <2>2, <2>4, <2>5 DEF ImageInv
<1>10. CASE Stop
  <2>1. runner' = 0 /\ UNCHANGED <<jobs, build, activating>> /\ \E ok \in BOOLEAN : Effect(runner, ok)
    BY <1>10 DEF Stop
  <2>2. image' \in Built \union {0}
    BY <2>1 DEF Effect, ImageInv, ActiveBuilds
  <2> QED BY <1>1, <2>1, <2>2 DEF ImageInv, Built, Jobs
<1> QED BY <1>2, <1>4, <1>5, <1>6, <1>7, <1>8, <1>9, <1>10 DEF QueuesNext

\* What is active was built with success, and the tag of the workers names such a build or none, through
\* concurrent activations, applies and workers that stop (activate_build, run_validation; the types of
\* WorkQueues).
THEOREM ImagesAreBuilt == QueuesSpec => []QueuesTypeOK
<1>1. QueuesInit => ImageInv
  BY LibrariesInit DEF QueuesInit, ImageInv
<1>2. ImageInv /\ [QueuesNext]_queueVars => ImageInv'
  BY ImageKept
<1>3. ImageInv => QueuesTypeOK
  BY DEF ImageInv, LibrariesInv, QueuesTypeOK
<1> QED BY <1>1, <1>2, <1>3, PTL DEF QueuesSpec

-----------------------------------------------------------------------------
(* The code of the jobs: as long as no two requests overlapped on a folder  *)
(* and no backup was missed, what a request is about to overwrite or remove *)
(* is what it saw, or has a copy.                                           *)

Code == UNION {Files(f) : f \in Folder}
States == {"none", "live", "deleted"}
CallSteps(op) ==
  CASE op = "create" -> {"provision"}
    [] op \in {"save", "remove", "rename"} -> {"backup", "write"}
    [] op = "create file" -> {"write file"}
    [] op = "delete" -> {"archive", "delete"}
    [] OTHER -> {}
Ops == {"create", "save", "remove", "rename", "create file", "delete"}
CallOK(r) == r.op \in Ops => r.step \in CallSteps(r.op) /\ r.x \in Code /\ r.j \in Job
CallRow ==
  [op : Ops \union {"idle"}, j : Job \union {0}, x : Code \union {Script(NoFolder)},
   step : {"done", "provision", "backup", "write", "write file", "archive", "delete"}]
JobRow == [state : States, folder : Folder \union {NoFolder}]

CodeTypes ==
  /\ job \in [Job -> JobRow] /\ \A j \in Job : job[j].state = "live" => job[j].folder \in Folder
  /\ code \in [Code -> {"nothing", "new", "copied"}]
  /\ call \in [Client -> CallRow]
  /\ \A d \in Client : CallOK(call[d]) /\ (call[d].op = "idle" => call[d] = NoCall)
  /\ copies \in {"kept", "excused"}

\* The content that a request is about to overwrite or remove has a copy, or is nothing.
Prepared(r, contents) ==
  /\ r.op \in {"save", "remove"} /\ r.step = "write" => contents[r.x] # "new"
  /\ r.op = "rename" => contents[Renamed(r.x)] = "nothing"
  /\ r.op = "create file" => contents[r.x] = "nothing"
  /\ r.op = "delete" /\ r.step = "delete" => \A y \in Files(r.x[1]) : contents[y] # "new"
Alone(calls_) == \A d, e \in Client :
  calls_[d].op # "idle" /\ calls_[e].op # "idle" /\ d # e => calls_[d].x[1] # calls_[e].x[1]
AllPrepared(calls_, contents) == \A d \in Client : calls_[d].op # "idle" => Prepared(calls_[d], contents)

CodeInv == CodeTypes /\ (copies = "kept" => Alone(call) /\ AllPrepared(call, code))

LEMMA FilesOf ==
  /\ \A f : \A x \in Files(f) : x[1] = f /\ Renamed(x) \in Files(f) /\ Renamed(x) # x
  /\ \A f \in Folder : Files(f) \subseteq Code
  /\ \A x \in Code : x[1] \in Folder /\ x \in Files(x[1]) /\ Renamed(x) \in Code /\ Renamed(x)[1] = x[1]
  /\ \A f : Script(f) \in Files(f)
<1>1. \A f : \A x \in Files(f) : x[1] = f /\ Renamed(x) \in Files(f) /\ Renamed(x) # x
  BY DEF Files, Renamed
<1>2. \A f \in Folder : Files(f) \subseteq Code
  BY DEF Code
<1>3. \A x \in Code : \E f \in Folder : x \in Files(f)
  BY DEF Code
<1>4. \A f : Script(f) \in Files(f)
  BY DEF Files, Script
<1> QED BY <1>1, <1>2, <1>3, <1>4

LEMMA CodeInitOK == CodeInit => CodeInv
<1> SUFFICES ASSUME CodeInit PROVE CodeInv
  OBVIOUS
<1>1. NoCall \in CallRow
      /\ NoCall.op = "idle"
  BY DEF NoCall, CallRow
<1>2. call \in [Client -> CallRow]
      /\ \A d \in Client : call[d] = NoCall
  BY <1>1 DEF CodeInit
<1>3. \A d \in Client : CallOK(call[d]) /\ call[d].op = "idle"
  BY <1>1, <1>2 DEF CallOK, Ops
<1>4. code \in [Code -> {"nothing", "new", "copied"}]
  BY DEF CodeInit, Code
<1>5. job \in [Job -> JobRow] /\ \A j \in Job : job[j].state = "none"
  BY DEF CodeInit, JobRow, States
<1> QED BY <1>2, <1>3, <1>4, <1>5 DEF CodeInv, CodeTypes, Alone, AllPrepared, CodeInit

LEMMA CallsOK ==
  ASSUME CodeTypes, NEW d \in Client, call[d].op # "idle"
  PROVE  /\ call[d] \in CallRow /\ CallOK(call[d]) /\ call[d].op \in Ops
         /\ call[d].x \in Code /\ call[d].x[1] \in Folder /\ call[d].step \in CallSteps(call[d].op)
         /\ call[d].j \in Job
<1>1. call[d] \in CallRow /\ CallOK(call[d])
  BY DEF CodeTypes
<1>2. call[d].op \in Ops
  BY <1>1 DEF CallRow
<1> QED BY <1>1, <1>2, FilesOf DEF CallOK

LEMMA Busy ==
  ASSUME CodeTypes, NEW d \in Client, call[d].step # "done"
  PROVE  call[d].op # "idle"
BY DEF CodeTypes, NoCall

\* A request begins.
LEMMA EnterKeeps ==
  ASSUME CodeInv, NEW d \in Client, NEW op \in Ops, NEW step \in CallSteps(op), NEW j \in Job, NEW x \in Code,
         Enter(d, op, step, j, x), UNCHANGED <<job, code>>,
         op = "rename" => ~There(Renamed(x)), op = "create file" => ~There(x), step \notin {"write", "delete"}
  PROVE  CodeInv'
<1> DEFINE r == [op |-> op, step |-> step, j |-> j, x |-> x]
<1>1. call' = [call EXCEPT ![d] = r] /\ call[d] = NoCall
  BY DEF Enter
<1>2. /\ r \in CallRow
      /\ CallOK(r) /\ r.op # "idle" /\ r.x = x /\ r.op = op /\ r.step = step
  BY DEF CallOK, CallSteps, Ops, CallRow
<1> HIDE DEF r
<1>3. /\ call' \in [Client -> CallRow]
      /\ call'[d] = r /\ \A e \in Client \ {d} : call'[e] = call[e]
  BY <1>1, <1>2 DEF CodeInv, CodeTypes
<1>4. copies' \in {"kept", "excused"} /\ (copies' = "kept" => copies = "kept" /\ On(x[1]) = {})
  BY DEF Enter, CodeInv, CodeTypes
<1>5. CodeTypes'
  BY <1>2, <1>3, <1>4 DEF CodeInv, CodeTypes
<1>6. ASSUME copies' = "kept" PROVE Alone(call') /\ AllPrepared(call', code')
  <2>1. Alone(call) /\ AllPrepared(call, code) /\ On(x[1]) = {}
    BY <1>4, <1>6 DEF CodeInv
  <2>2. \A e \in Client \ {d} : call[e].op # "idle" => call[e].x[1] # x[1]
    BY <2>1 DEF On
  <2>3. Alone(call')
    <3>1. ASSUME NEW a \in Client, NEW b \in Client, call'[a].op # "idle", call'[b].op # "idle", a # b
          PROVE  call'[a].x[1] # call'[b].x[1]
      <4>1. CASE a = d
        BY <1>2, <1>3, <2>2, <3>1, <4>1
      <4>2. CASE b = d
        BY <1>2, <1>3, <2>2, <3>1, <4>2
      <4>3. CASE a # d /\ b # d
        BY <1>3, <2>1, <3>1, <4>3 DEF Alone
      <4> QED BY <4>1, <4>2, <4>3
    <3> QED BY <3>1 DEF Alone
  <2>4. Prepared(r, code)
    BY <1>2 DEF Prepared, There
  <2>5. AllPrepared(call', code')
    BY <1>3, <2>1, <2>4 DEF AllPrepared
  <2> QED BY <2>3, <2>5
<1> QED BY <1>5, <1>6 DEF CodeInv

\* A request goes on or ends; it changed nothing outside its folder, and what it is to do next is
\* prepared.
LEMMA StepKeeps ==
  ASSUME CodeInv, NEW d \in Client, call[d].op # "idle", NEW r,
         call' = [call EXCEPT ![d] = r],
         \/ r = NoCall
         \/ r \in CallRow
            /\ r.op = call[d].op /\ r.x = call[d].x /\ CallOK(r),
         job' \in [Job -> JobRow], \A j \in Job : job'[j].state = "live" => job'[j].folder \in Folder,
         code' \in [Code -> {"nothing", "new", "copied"}], copies' \in {"kept", "excused"},
         copies' = "kept" => copies = "kept",
         \A y \in Code : y[1] # call[d].x[1] => code'[y] = code[y],
         copies' = "kept" /\ r # NoCall => Prepared(r, code')
  PROVE  CodeInv'
<1>1. NoCall \in CallRow
      /\ NoCall.op = "idle" /\ CallOK(NoCall)
  BY DEF NoCall, CallOK, Ops, CallRow
<1>2. call[d].op \in Ops /\ call[d].x \in Code
  BY CallsOK DEF CodeInv
<1>3. /\ call' \in [Client -> CallRow]
      /\ call'[d] = r /\ \A e \in Client \ {d} : call'[e] = call[e]
  BY <1>1 DEF CodeInv, CodeTypes
<1>4. CallOK(r) /\ (r.op = "idle" => r = NoCall)
  BY <1>1
<1>5. CodeTypes'
  BY <1>3, <1>4 DEF CodeInv, CodeTypes
<1>6. ASSUME copies' = "kept" PROVE Alone(call') /\ AllPrepared(call', code')
  <2>1. Alone(call) /\ AllPrepared(call, code)
    BY <1>6 DEF CodeInv
  <2>2. Alone(call')
    BY <1>1, <1>3, <2>1 DEF Alone
  <2>3. ASSUME NEW e \in Client \ {d}, call[e].op # "idle" PROVE Prepared(call[e], code')
    <3>1. /\ call[e].x \in Code /\ call[e].x[1] # call[d].x[1]
          /\ Prepared(call[e], code)
      BY <2>1, <2>3, CallsOK DEF Alone, AllPrepared, CodeInv
    <3>2. \A y \in Files(call[e].x[1]) : code'[y] = code[y]
      BY <3>1, FilesOf
    <3>3. call[e].x \in Files(call[e].x[1]) /\ Renamed(call[e].x) \in Files(call[e].x[1])
      BY <3>1, FilesOf
    <3> QED BY <3>1, <3>2, <3>3 DEF Prepared
  <2>4. AllPrepared(call', code')
    BY <1>1, <1>3, <1>6, <2>3 DEF AllPrepared
  <2> QED BY <2>2, <2>4
<1> QED BY <1>5, <1>6 DEF CodeInv

LEMMA ReachKeeps ==
  ASSUME CodeInv, NEW d \in Client, call[d].op # "idle", NEW step \in CallSteps(call[d].op), Reach(d, step),
         UNCHANGED job, code' \in [Code -> {"nothing", "new", "copied"}], copies' \in {"kept", "excused"},
         copies' = "kept" => copies = "kept",
         \A y \in Code : y[1] # call[d].x[1] => code'[y] = code[y],
         copies' = "kept" => Prepared([call[d] EXCEPT !.step = step], code')
  PROVE  CodeInv'
<1> DEFINE r == [call[d] EXCEPT !.step = step]
<1>1. call[d] \in CallRow
      /\ CallOK(call[d]) /\ call[d].op \in Ops
  BY CallsOK DEF CodeInv
<1>2. step \in {"done", "provision", "backup", "write", "write file", "archive", "delete"}
  BY <1>1 DEF CallSteps, Ops
<1>3. /\ r \in CallRow
      /\ r.op = call[d].op /\ r.x = call[d].x /\ r.j = call[d].j /\ r.step = step
  BY <1>1, <1>2 DEF CallRow
<1>4. call' = [call EXCEPT ![d] = r]
  BY DEF Reach
<1>5. CallOK(r)
  BY <1>1, <1>3 DEF CallOK
<1>6. job' \in [Job -> JobRow] /\ \A j \in Job : job'[j].state = "live" => job'[j].folder \in Folder
  BY DEF CodeInv, CodeTypes
<1> HIDE DEF r
<1> QED BY <1>3, <1>4, <1>5, <1>6, StepKeeps DEF r

LEMMA LeaveKeeps ==
  ASSUME CodeInv, NEW d \in Client, call[d].op # "idle", Leave(d),
         job' \in [Job -> JobRow], \A j \in Job : job'[j].state = "live" => job'[j].folder \in Folder,
         code' \in [Code -> {"nothing", "new", "copied"}], copies' \in {"kept", "excused"},
         copies' = "kept" => copies = "kept",
         \A y \in Code : y[1] # call[d].x[1] => code'[y] = code[y]
  PROVE  CodeInv'
<1>1. call' = [call EXCEPT ![d] = NoCall]
  BY DEF Leave
<1> QED BY <1>1, StepKeeps

\* Contents are put where nothing is lost.
LEMMA PutKeeps ==
  ASSUME CodeTypes, NEW files \in SUBSET Code, NEW contents \in [files -> {"nothing", "new", "copied"}], Put(contents),
         copies = "kept" => \A x \in files : code[x] # "new"
  PROVE  /\ code' \in [Code -> {"nothing", "new", "copied"}] /\ copies' = copies
         /\ \A y \in Code \ files : code'[y] = code[y]
<1>1. DOMAIN code = Code /\ DOMAIN contents = files
  BY DEF CodeTypes
<1>2. code' = [x \in Code |-> IF x \in files THEN contents[x] ELSE code[x]]
  BY <1>1 DEF Put
<1>3. copies' = copies
  BY <1>1 DEF Put
<1> QED BY <1>2, <1>3 DEF CodeTypes

LEMMA JobsStay ==
  ASSUME CodeInv
  PROVE  /\ job \in [Job -> JobRow] /\ \A j \in Job : job[j].state = "live" => job[j].folder \in Folder
         /\ code \in [Code -> {"nothing", "new", "copied"}] /\ copies \in {"kept", "excused"}
BY DEF CodeInv, CodeTypes

LEMMA FoldersOfJobs ==
  ASSUME NEW j \in Job
  PROVE  Slug(NameOf[j]) \in Folder /\ WithId(j) \in Folder /\ ProvisionAt(j) \in Folder
BY DEF ProvisionAt, Folder

LEMMA CreateJobKeeps == ASSUME CodeInv, NEW d \in Client, NEW j \in Job, CreateJob(d, j) PROVE CodeInv'
<1>1. Script(ProvisionAt(j)) \in Code
  BY FoldersOfJobs, FilesOf
<1>2. Enter(d, "create", "provision", j, Script(ProvisionAt(j))) /\ UNCHANGED <<job, code>>
  BY DEF CreateJob
<1>3. "create" \in Ops /\ "provision" \in CallSteps("create")
  BY DEF Ops, CallSteps
<1> QED BY <1>1, <1>2, <1>3, EnterKeeps

LEMMA EditKeeps ==
  ASSUME CodeInv, NEW d \in Client, NEW j \in Job, NEW op \in {"save", "remove", "rename"},
         NEW x \in DOMAIN code, Edit(d, j, op, x)
  PROVE  CodeInv'
<1>1. x \in Code
  BY DEF CodeInv, CodeTypes
<1>2. op \in Ops /\ "backup" \in CallSteps(op)
  BY DEF Ops, CallSteps
<1>3. Enter(d, op, "backup", j, x) /\ UNCHANGED <<job, code>> /\ (op = "rename" => ~There(Renamed(x)))
  BY DEF Edit
<1> QED BY <1>1, <1>2, <1>3, EnterKeeps

LEMMA CreateFileKeeps ==
  ASSUME CodeInv, NEW d \in Client, NEW j \in Job, NEW x \in DOMAIN code, CreateFile(d, j, x) PROVE CodeInv'
<1>1. x \in Code
  BY DEF CodeInv, CodeTypes
<1>2. "create file" \in Ops /\ "write file" \in CallSteps("create file")
  BY DEF Ops, CallSteps
<1>3. Enter(d, "create file", "write file", j, x) /\ UNCHANGED <<job, code>> /\ ~There(x)
  BY DEF CreateFile
<1> QED BY <1>1, <1>2, <1>3, EnterKeeps

LEMMA DeleteJobKeeps == ASSUME CodeInv, NEW d \in Client, NEW j \in Job, DeleteJob(d, j) PROVE CodeInv'
<1>1. Script(job[j].folder) \in Code
  BY FilesOf, JobsStay DEF DeleteJob, Live
<1>2. "delete" \in Ops /\ "archive" \in CallSteps("delete")
  BY DEF Ops, CallSteps
<1> DEFINE x == Script(job[j].folder)
<1>3. Enter(d, "delete", "archive", j, x) /\ UNCHANGED <<job, code>> /\ x \in Code
  BY <1>1 DEF DeleteJob
<1> HIDE DEF x
<1> QED BY <1>1, <1>2, <1>3, EnterKeeps

LEMMA SetScriptPathKeeps ==
  ASSUME CodeInv, NEW j \in Job, NEW f \in Folder, SetScriptPath(j, f) PROVE CodeInv'
<1>1. job' = [job EXCEPT ![j].state = "live", ![j].folder = f] /\ UNCHANGED <<call, code, copies>>
  BY DEF SetScriptPath
<1>2. /\ job' \in [Job -> JobRow] /\ \A k \in Job : job'[k].state = "live" => job'[k].folder \in Folder
  BY <1>1, JobsStay DEF JobRow, States
<1> QED BY <1>1, <1>2 DEF CodeInv, CodeTypes

\* A file alone is written, or taken away.
LEMMA PutOne ==
  ASSUME CodeInv, NEW x \in Code, NEW content \in {"nothing", "new", "copied"}, Put(One(x, content)),
         copies = "kept" => code[x] # "new"
  PROVE  /\ code' \in [Code -> {"nothing", "new", "copied"}] /\ copies' = copies
         /\ \A y \in Code : y[1] # x[1] => code'[y] = code[y]
<1> DEFINE contents == One(x, content)
           files == {x}
<1>1. files \in SUBSET Code /\ contents \in [files -> {"nothing", "new", "copied"}]
  BY DEF One
<1>2. Put(contents) /\ (copies = "kept" => \A y \in files : code[y] # "new")
  OBVIOUS
<1>3. \A y \in Code : y[1] # x[1] => y \in Code \ files
  OBVIOUS
<1> HIDE DEF contents, files
<1>4. code' \in [Code -> {"nothing", "new", "copied"}] /\ copies' = copies /\ \A y \in Code \ files : code'[y] = code[y]
  BY <1>1, <1>2, PutKeeps DEF CodeInv
<1> QED BY <1>3, <1>4

LEMMA ProvisionKeeps == ASSUME CodeInv, NEW d \in Client, Provision(d) PROVE CodeInv'
<1>1. /\ call[d].op = "create" /\ call[d].x \in Code /\ call[d].x[1] \in Folder /\ call[d].j \in Job
  BY CallsOK DEF Provision, CodeInv, CallOK
<1>2. /\ code' \in [Code -> {"nothing", "new", "copied"}] /\ copies' = copies
      /\ \A y \in Code : y[1] # call[d].x[1] => code'[y] = code[y]
  <2>1. CASE There(call[d].x)
    BY <2>1, JobsStay DEF Provision
  <2>2. CASE ~There(call[d].x)
    BY <1>1, <2>2, PutOne DEF Provision, There
  <2> QED BY <2>1, <2>2
<1>3. job' \in [Job -> JobRow] /\ \A j \in Job : job'[j].state = "live" => job'[j].folder \in Folder
  BY <1>1, JobsStay DEF Provision, JobRow, States
<1>4. Leave(d)
  BY DEF Provision
<1> QED BY <1>1, <1>2, <1>3, <1>4, JobsStay, LeaveKeeps

LEMMA PreparedNow ==
  ASSUME CodeInv, NEW d \in Client, call[d].op # "idle", copies = "kept"
  PROVE  Prepared(call[d], code)
BY DEF CodeInv, AllPrepared

LEMMA BackupKeeps == ASSUME CodeInv, NEW d \in Client, Backup(d) PROVE CodeInv'
<1> DEFINE x == call[d].x
<1>1. /\ call[d].op \in {"save", "remove", "rename"} /\ call[d].op # "idle" /\ x \in Code /\ call[d] \in CallRow
      /\ Renamed(x) # x /\ Renamed(x) \in Code
  BY CallsOK, FilesOf DEF Backup, CodeInv
<1>2. Reach(d, "write") /\ "write" \in CallSteps(call[d].op) /\ UNCHANGED job
  BY <1>1 DEF Backup, CallSteps
<1>3. \/ code' = code /\ copies' = "excused"
      \/ code' = [code EXCEPT ![x] = BackedUp(x)] /\ (copies' = copies \/ copies' = "excused")
  BY DEF Backup
<1>4. BackedUp(x) \in {"nothing", "new", "copied"} /\ BackedUp(x) # "new" /\ code[x] \in {"nothing", "new", "copied"}
  BY <1>1, JobsStay DEF BackedUp, There
<1>5. code' \in [Code -> {"nothing", "new", "copied"}] /\ copies' \in {"kept", "excused"}
      /\ (copies' = "kept" => copies = "kept" /\ code' = [code EXCEPT ![x] = BackedUp(x)])
  BY <1>1, <1>3, <1>4, JobsStay
<1>6. \A y \in Code : y[1] # x[1] => code'[y] = code[y]
  BY <1>1, <1>3, JobsStay
<1>7. ASSUME copies' = "kept" PROVE Prepared([call[d] EXCEPT !.step = "write"], code')
  <2> DEFINE r == [call[d] EXCEPT !.step = "write"]
  <2>1. r.op = call[d].op /\ r.x = x
    BY <1>1 DEF CallRow
  <2>2. Prepared(call[d], code) /\ code'[x] # "new" /\ code'[Renamed(x)] = code[Renamed(x)]
    BY <1>1, <1>4, <1>5, <1>7, JobsStay, PreparedNow
  <2> HIDE DEF r
  <2> QED BY <1>1, <2>1, <2>2 DEF Prepared, r
<1> QED BY <1>1, <1>2, <1>5, <1>6, <1>7, ReachKeeps

LEMMA EditWritesKeeps == ASSUME CodeInv, NEW d \in Client, EditWrites(d) PROVE CodeInv'
<1> DEFINE x == call[d].x
<1>1. call[d].step = "write" /\ Leave(d) /\ UNCHANGED job
  BY DEF EditWrites
<1>2. call[d].op # "idle"
  BY <1>1, Busy DEF CodeInv
<1>3. /\ call[d].op \in {"save", "remove", "rename"} /\ x \in Code
      /\ Renamed(x) # x /\ Renamed(x) \in Code /\ Renamed(x)[1] = x[1]
  <2>1. /\ x \in Code /\ call[d].op \in Ops /\ "write" \in CallSteps(call[d].op)
    BY <1>1, <1>2, CallsOK DEF CodeInv
  <2>2. call[d].op \in {"save", "remove", "rename"}
    BY <2>1 DEF CallSteps, Ops
  <2> QED BY <2>1, <2>2, FilesOf
<1>4. copies = "kept" => Prepared(call[d], code)
  BY <1>2, PreparedNow
<1>5. /\ code' \in [Code -> {"nothing", "new", "copied"}] /\ copies' = copies
      /\ \A y \in Code : y[1] # x[1] => code'[y] = code[y]
  <2>1. CASE UNCHANGED <<code, copies>>
    BY <2>1, JobsStay
  <2>2. CASE call[d].op \in {"save", "remove"} /\ \E content \in {"new", "nothing"} : Put(One(x, content))
    BY <1>1, <1>3, <1>4, <2>2, PutOne DEF Prepared
  <2>3. CASE call[d].op = "rename" /\ RenameWrites(x)
    <3>1. /\ code' = [code EXCEPT ![x] = "nothing", ![Renamed(x)] = code[x]]
          /\ copies' = copies
      BY <1>4, <2>3 DEF RenameWrites, Prepared
    <3>2. code[x] \in {"nothing", "new", "copied"}
      BY <1>3, JobsStay
    <3> QED BY <1>3, <3>1, <3>2, JobsStay
  <2> QED BY <2>1, <2>2, <2>3 DEF EditWrites, SaveWrites, RemoveWrites
<1> QED BY <1>1, <1>2, <1>5, JobsStay, LeaveKeeps

LEMMA FileCreatedKeeps == ASSUME CodeInv, NEW d \in Client, FileCreated(d) PROVE CodeInv'
<1>1. call[d].step = "write file" /\ Leave(d) /\ UNCHANGED job /\ Put(One(call[d].x, "new"))
  BY DEF FileCreated
<1>2. call[d].op # "idle"
  BY <1>1, Busy DEF CodeInv
<1>3. call[d].op = "create file" /\ call[d].x \in Code
  BY <1>1, <1>2, CallsOK DEF CallSteps, Ops, CodeInv
<1>4. copies = "kept" => code[call[d].x] # "new"
  BY <1>2, <1>3, PreparedNow DEF Prepared
<1>5. /\ code' \in [Code -> {"nothing", "new", "copied"}] /\ copies' = copies
      /\ \A y \in Code : y[1] # call[d].x[1] => code'[y] = code[y]
  BY <1>1, <1>3, <1>4, PutOne
<1> QED BY <1>1, <1>2, <1>5, JobsStay, LeaveKeeps

LEMMA ArchiveKeeps == ASSUME CodeInv, NEW d \in Client, Archive(d) PROVE CodeInv'
<1> DEFINE f == call[d].x[1]
<1>1. call[d].step = "archive" /\ UNCHANGED <<job, copies>>
  BY DEF Archive
<1>2. call[d].op # "idle"
  BY <1>1, Busy DEF CodeInv
<1>3. call[d].op = "delete" /\ f \in Folder /\ call[d] \in CallRow
  BY <1>1, <1>2, CallsOK DEF CallSteps, Ops, CodeInv
<1>4. CASE UNCHANGED code /\ Leave(d)
  BY <1>1, <1>2, <1>4, JobsStay, LeaveKeeps
<1>5. CASE code' = Archived(f) /\ Reach(d, "delete")
  <2>1. code' = [y \in Code |-> IF y \in Files(f) /\ There(y) THEN "copied" ELSE code[y]]
    BY <1>5, JobsStay DEF Archived
  <2>2. /\ code' \in [Code -> {"nothing", "new", "copied"}]
        /\ \A y \in Code : y[1] # f => code'[y] = code[y]
        /\ \A y \in Files(f) : code'[y] # "new"
    BY <1>3, <2>1, JobsStay, FilesOf DEF There
  <2>3. Prepared([call[d] EXCEPT !.step = "delete"], code')
    <3> DEFINE r == [call[d] EXCEPT !.step = "delete"]
    <3>1. r.op = "delete" /\ r.x = call[d].x
      BY <1>3 DEF CallRow
    <3> HIDE DEF r
    <3> QED BY <2>2, <3>1 DEF Prepared, r
  <2>4. "delete" \in CallSteps(call[d].op)
    BY <1>3 DEF CallSteps
  <2> QED BY <1>1, <1>2, <1>5, <2>2, <2>3, <2>4, JobsStay, ReachKeeps
<1> QED BY <1>4, <1>5 DEF Archive

LEMMA DeleteCommitsKeeps == ASSUME CodeInv, NEW d \in Client, DeleteCommits(d) PROVE CodeInv'
<1> DEFINE f == call[d].x[1]
           files == Files(f)
           contents == [x \in files |-> "nothing"]
<1>1. call[d].step = "delete" /\ Leave(d) /\ job' = [job EXCEPT ![call[d].j].state = "deleted"]
  BY DEF DeleteCommits
<1>2. call[d].op # "idle"
  BY <1>1, Busy DEF CodeInv
<1>3. call[d].op = "delete" /\ f \in Folder /\ files \in SUBSET Code /\ call[d].j \in Job
  BY <1>1, <1>2, CallsOK, FilesOf DEF CallSteps, Ops, CodeInv
<1>4. copies = "kept" => \A y \in files : code[y] # "new"
  BY <1>1, <1>2, <1>3, PreparedNow DEF Prepared
<1>5. contents \in [files -> {"nothing", "new", "copied"}]
  OBVIOUS
<1>6. \A y \in Code : y[1] # f => y \in Code \ files
  BY FilesOf
<1>7. Put(contents) \/ UNCHANGED <<code, copies>>
  BY DEF DeleteCommits
<1>8. /\ code' \in [Code -> {"nothing", "new", "copied"}] /\ copies' = copies
      /\ \A y \in Code : y[1] # f => code'[y] = code[y]
  <2> HIDE DEF files, contents
  <2>1. CASE Put(contents)
    BY <1>3, <1>4, <1>5, <1>6, <2>1, PutKeeps DEF CodeInv
  <2> QED BY <1>7, <2>1, JobsStay
<1>9. job' \in [Job -> JobRow] /\ \A j \in Job : job'[j].state = "live" => job'[j].folder \in Folder
  BY <1>1, <1>3, JobsStay DEF JobRow, States
<1> QED BY <1>1, <1>2, <1>8, <1>9, JobsStay, LeaveKeeps

LEMMA CodeKept == ASSUME CodeInv, [CodeNext]_codeVars PROVE CodeInv'
<1>1. CASE UNCHANGED codeVars
  BY <1>1 DEF codeVars, CodeInv, CodeTypes
<1> QED BY <1>1, SetScriptPathKeeps, CreateJobKeeps, DeleteJobKeeps, CreateFileKeeps, EditKeeps, ProvisionKeeps,
           BackupKeeps, EditWritesKeeps, FileCreatedKeeps, ArchiveKeeps, DeleteCommitsKeeps DEF CodeNext

\* Nothing that was in the workspace of a job is overwritten or removed without a copy in a backup or in
\* the archive, unless two requests overlapped on its folder or a backup was missed or replaced
\* (delete_job, write_file, rename), for any number of jobs, names and clients.
THEOREM CodeStays == CodeSpec => []CodeIsKept
<1>1. CodeInit => CodeInv
  BY CodeInitOK
<1>2. CodeInv /\ [CodeNext]_codeVars => CodeInv'
  BY CodeKept
<1>3. CodeInv => CodeIsKept
  BY DEF CodeInv, CodeTypes, CodeIsKept
<1> QED BY <1>1, <1>2, <1>3, PTL DEF CodeSpec

\* What the rows, the folders and the requests are, beside what CodeInv says of them.
FoldersInv ==
  /\ calls \in 0..MaxCalls /\ dirs \subseteq Folder
  /\ \A j \in Job : job[j].folder \in Folder \union {NoFolder}

LEMMA FoldersKept == ASSUME CodeInv, FoldersInv, [CodeNext]_codeVars PROVE FoldersInv'
<1>1. calls' \in 0..MaxCalls
  <2> DEFINE Counted == calls' = calls \/ (calls < MaxCalls /\ calls' = calls + 1)
  <2>1. ASSUME UNCHANGED codeVars PROVE Counted
    BY <2>1 DEF codeVars
  <2>2. ASSUME NEW j \in Job, NEW f \in Folder, SetScriptPath(j, f) PROVE Counted
    BY <2>2 DEF SetScriptPath
  <2>3. ASSUME NEW d \in Client, NEW j \in Job, NEW op, NEW x,
               CreateJob(d, j) \/ DeleteJob(d, j) \/ CreateFile(d, j, x) \/ Edit(d, j, op, x)
        PROVE  Counted
    BY <2>3 DEF CreateJob, DeleteJob, CreateFile, Edit, Enter
  <2>4. ASSUME NEW d \in Client,
               Provision(d) \/ Backup(d) \/ EditWrites(d) \/ FileCreated(d) \/ Archive(d) \/ DeleteCommits(d)
        PROVE  Counted
    BY <2>4 DEF Provision, Backup, EditWrites, FileCreated, Archive, DeleteCommits, Reach, Leave
  <2>5. Counted
    BY <2>1, <2>2, <2>3, <2>4 DEF CodeNext
  <2> QED BY <2>5, CallsAssumption DEF FoldersInv
<1>2. \A d \in Client : call[d].op # "idle" => call[d].x[1] \in Folder
  BY CallsOK DEF CodeInv
<1>3. \A d \in Client : call[d].step # "done" => call[d].op # "idle"
  BY Busy DEF CodeInv
<1>4. job \in [Job -> JobRow]
  BY DEF CodeInv, CodeTypes
<1>5. SUFFICES dirs' \subseteq Folder /\ \A j \in Job : job'[j].folder \in Folder \union {NoFolder}
  BY <1>1 DEF FoldersInv
<1>6. CASE UNCHANGED codeVars
  BY <1>6 DEF codeVars, FoldersInv
<1>7. ASSUME NEW j \in Job, NEW f \in Folder, SetScriptPath(j, f)
      PROVE  dirs' = dirs /\ \A k \in Job : job'[k].folder \in {job[k].folder, f}
  BY <1>4, <1>7 DEF SetScriptPath, JobRow
<1>8. ASSUME NEW d \in Client, Provision(d)
      PROVE  dirs' \subseteq Folder /\ \A k \in Job : job'[k].folder \in {job[k].folder} \union Folder
  BY <1>2, <1>4, <1>8 DEF Provision, FoldersInv
<1>9. ASSUME NEW d \in Client, FileCreated(d) PROVE dirs' \subseteq Folder /\ job' = job
  BY <1>2, <1>3, <1>9 DEF FileCreated, FoldersInv
<1>10. ASSUME NEW d \in Client, DeleteCommits(d)
       PROVE  dirs' \subseteq dirs /\ \A k \in Job : job'[k].folder = job[k].folder
  BY <1>4, <1>10 DEF DeleteCommits, JobRow
<1>11. ASSUME NEW d \in Client, Backup(d) \/ EditWrites(d) \/ Archive(d) PROVE UNCHANGED <<dirs, job>>
  BY <1>11 DEF Backup, EditWrites, Archive
<1>12. ASSUME NEW d \in Client, NEW j \in Job, NEW op, NEW x,
              CreateJob(d, j) \/ DeleteJob(d, j) \/ CreateFile(d, j, x) \/ Edit(d, j, op, x)
       PROVE  UNCHANGED <<dirs, job>>
  BY <1>12 DEF CreateJob, DeleteJob, CreateFile, Edit
<1> QED BY <1>6, <1>7, <1>8, <1>9, <1>10, <1>11, <1>12 DEF CodeNext, FoldersInv

\* The folders of the jobs, the files and the requests under way are those the program can have made,
\* for any number of jobs, names and clients.
THEOREM CodeTypeCorrect == CodeSpec => []CodeTypeOK
<1>1. CodeInit => CodeInv /\ FoldersInv
  <2>1. CodeInit => FoldersInv
    <3>1. 0 \in 0..MaxCalls
      BY CallsAssumption
    <3> QED BY <3>1 DEF CodeInit, FoldersInv
  <2> QED BY <2>1, CodeInitOK
<1>2. CodeInv /\ FoldersInv /\ [CodeNext]_codeVars => CodeInv' /\ FoldersInv'
  BY CodeKept, FoldersKept
<1>3. CodeInv /\ FoldersInv => CodeTypeOK
  <2> SUFFICES ASSUME CodeInv, FoldersInv PROVE CodeTypeOK
    OBVIOUS
  <2>1. job \in [Job -> JobRow] /\ call \in [Client -> CallRow] /\ code \in [Code -> {"nothing", "new", "copied"}]
    BY DEF CodeInv, CodeTypes
  <2>2. \A j \in Job : job[j].state \in {"none", "live", "deleted"}
    BY <2>1 DEF JobRow, States
  <2>3. \A d \in Client : call[d].step \in {"done", "provision", "backup", "write", "write file", "archive", "delete"}
    BY <2>1 DEF CallRow
  <2> QED BY <2>1, <2>2, <2>3 DEF CodeTypeOK, FoldersInv
<1> QED BY <1>1, <1>2, <1>3, PTL DEF CodeSpec

-----------------------------------------------------------------------------
(* The loads, the outbox and what the jobs need, side by side.             *)

\* A step of the composition is a step of one part, and the others stand still: each part sees a
\* step of its own or none.
LEMMA EachPartSteps ==
  ASSUME [LoadsNext]_allVars
  PROVE  /\ [Next]_vars /\ [IngestNext]_ingestVars /\ [GradeNext]_gradedVars
         /\ [CatalogNext]_catalogVars /\ [CodeNext]_codeVars /\ [QueuesNext]_queueVars
<1>1. CASE UNCHANGED allVars
  BY <1>1 DEF allVars, loadVars
<1>2. CASE LoadsNext
  <2>1. CASE Next /\ UNCHANGED loadVars
    BY <2>1 DEF loadVars
  <2>2. CASE IngestNext /\ UNCHANGED <<vars, gradedVars, catalogVars, codeVars, queueVars>>
    BY <2>2
  <2>3. CASE GradeNext /\ UNCHANGED <<vars, ingestVars, catalogVars, codeVars, queueVars>>
    BY <2>3
  <2>4. CASE CatalogNext /\ UNCHANGED <<vars, ingestVars, gradedVars, codeVars, queueVars>>
    BY <2>4
  <2>5. CASE CodeNext /\ UNCHANGED <<vars, ingestVars, gradedVars, catalogVars, queueVars>>
    BY <2>5
  <2>6. CASE QueuesNext /\ UNCHANGED <<vars, ingestVars, gradedVars, catalogVars, codeVars>>
    BY <2>6
  <2> QED BY <1>2, <2>1, <2>2, <2>3, <2>4, <2>5, <2>6 DEF LoadsNext
<1> QED BY <1>1, <1>2

\* A behaviour of the composition, seen through the variables of one part, is a behaviour of that
\* part: what is proved of the part holds in it.
LEMMA EachPartBehaves ==
  LoadsSpec => Spec /\ IngestSpec /\ GradeSpec /\ CatalogSpec /\ CodeSpec /\ QueuesSpec
<1>1. LoadsInit => Init /\ IngestInit /\ GradeInit /\ CatalogInit /\ CodeInit /\ QueuesInit
  BY DEF LoadsInit
<1>2. [LoadsNext]_allVars => /\ [Next]_vars /\ [IngestNext]_ingestVars /\ [GradeNext]_gradedVars
                            /\ [CatalogNext]_catalogVars /\ [CodeNext]_codeVars /\ [QueuesNext]_queueVars
  BY EachPartSteps
<1> QED BY <1>1, <1>2, PTL DEF LoadsSpec, Spec, IngestSpec, GradeSpec, CatalogSpec, CodeSpec, QueuesSpec

\* Of the outbox, the loads, the grades, the catalog, the code of the jobs and the queues of the
\* workers, side by side: the rows of each are ones the program can have made, for any number of
\* events, loads, tables, jobs, libraries and clients.
THEOREM LoadsAreTyped == LoadsSpec => []TypesOK
BY EachPartBehaves, Types, RowsComeFromSource, GradesTypeCorrect, CatalogTypeCorrect, CodeTypeCorrect,
   ImagesAreBuilt, PTL DEF TypesOK
=============================================================================
