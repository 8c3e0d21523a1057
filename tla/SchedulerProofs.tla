--------------------------- MODULE SchedulerProofs ----------------------------
(* Theorems about Scheduler, for every value of its constants. *)
EXTENDS Scheduler, FiniteSetTheorems, TLAPS

\* The rows that the handlers compute are rows, of the same schedule.
LEMMA SlotIsInstant ==
  ASSUME NEW period \in Periods, NEW base \in Nat
  PROVE  Slot(period, base) \in Nat
<1>1. period \in Nat /\ period > 0
  BY SchedulerAssumption
<1>2. base \div period \in Nat
  BY <1>1
<1>3. base \div period + 1 \in Nat
  BY <1>2
<1> QED
  BY <1>1, <1>3 DEF Slot

LEMMA RowsExist ==
  /\ NoRow.gone /\ Dropped.gone /\ ~NoRow.used /\ Dropped.used /\ NoRow \notin Rows /\ Dropped \notin Rows
  /\ \A row \in Rows : ~row.gone /\ row.used
  /\ \A on \in BOOLEAN, period \in Periods \union {0} : Row(on, period) \in Rows
  BY DEF NoRow, Dropped, Row, Rows, Null

LEMMA NextRunIsRow ==
  ASSUME NEW row \in Rows, NEW now \in Nat
  PROVE  ApplyNextRun(row, now) \in Rows
<1>1. CASE ~row.active \/ row.period = 0
  BY <1>1 DEF ApplyNextRun, Rows, Null
<1>2. CASE row.active /\ row.period # 0
  <2>1. ComputeNextRun(row, now) \in Nat
    BY <1>2, SlotIsInstant DEF ComputeNextRun, Rows
  <2> HIDE DEF ComputeNextRun
  <2> QED
    BY <1>2, <2>1 DEF ApplyNextRun, Rows, Null
<1> QED
  BY <1>1, <1>2

LEMMA MergedIsRow ==
  ASSUME NEW row \in Rows, NEW old \in Rows, NEW new \in Rows
  PROVE  Merged(row, old, new) \in Rows
<1> DEFINE pick(f) == IF new[f] # old[f] THEN new[f] ELSE row[f]
<1>1. Merged(row, old, new) =
        [active |-> pick("active"), period |-> pick("period"), start |-> pick("start"), end |-> pick("end"),
         next |-> pick("next"), gone |-> pick("gone"), used |-> pick("used")]
  BY DEF Merged, Rows
<1>2. /\ pick("active") \in BOOLEAN /\ pick("period") \in Periods \union {0}
      /\ pick("start") \in Nat /\ pick("end") \in Nat /\ pick("next") \in Nat
      /\ pick("gone") \in {FALSE} /\ pick("used") \in {TRUE}
  BY DEF Rows
<1>3. \A a \in BOOLEAN, p \in Periods \union {0}, s, e, n \in Nat :
        [active |-> a, period |-> p, start |-> s, end |-> e, next |-> n, gone |-> FALSE, used |-> TRUE] \in Rows
  BY DEF Rows
<1>4. Merged(row, old, new) =
        [active |-> pick("active"), period |-> pick("period"), start |-> pick("start"), end |-> pick("end"),
         next |-> pick("next"), gone |-> FALSE, used |-> TRUE]
  BY <1>1, <1>2
<1> HIDE DEF pick
<1> QED
  BY <1>2, <1>3, <1>4

\* What makes a write of the row of s harmless to whoever fires it or asked to change it.
LEMMA RowWritten ==
  ASSUME SchedTypeOK, NEW s \in Schedule, NEW row \in Rows,
         schedule' = [schedule EXCEPT ![s] = row]
  PROVE  /\ schedule' \in [Schedule -> Rows \union {NoRow, Dropped}]
         /\ \A t \in Schedule : ~schedule[t].gone => ~schedule'[t].gone
  BY RowsExist DEF SchedTypeOK

LEMMA MovedKeepsRequests ==
  ASSUME SchedTypeOK, NEW s \in Schedule, Moved(s)
  PROVE  request' \subseteq Requests
<1> SUFFICES ASSUME NEW r \in request', NEW q \in request, r = IF q.sched = s THEN [q EXCEPT !.raced = TRUE] ELSE q
             PROVE  r \in Requests
  BY DEF Moved
<1> QED
  BY DEF SchedTypeOK, Requests

LEMMA AskedIsRequest ==
  ASSUME NEW s \in Schedule, NEW row \in Rows, NEW by \in Nat \union Replica, schedule[s] \in Rows, clock \in Nat
  PROVE  Asked(s, row, by) \in Requests
<1>1. PICK new \in Rows : new = ApplyNextRun(row, clock)
  BY NextRunIsRow
<1>2. PICK old \in Rows : old = schedule[s]
  OBVIOUS
<1>3. Asked(s, row, by) = [sched |-> s, old |-> old, new |-> new, raced |-> FALSE, by |-> by]
  BY <1>1, <1>2 DEF Asked
<1> QED
  BY <1>3 DEF Requests

LEMMA SchedTypeStep == SchedTypeOK /\ [SchedNext]_schedVars => SchedTypeOK'
<1> SUFFICES ASSUME SchedTypeOK, [SchedNext]_schedVars PROVE SchedTypeOK'
  OBVIOUS
<1> USE SchedulerAssumption
<1>a. /\ schedule \in [Schedule -> Rows \union {NoRow, Dropped}]
      /\ \A s \in Schedule : ~schedule[s].gone <=> schedule[s] \in Rows
      /\ fire \in [Replica -> Fires \union {Idle}]
      /\ \A p, q \in Replica :
           (p # q /\ fire[p].step = "fire" /\ fire[q].step = "fire") => fire[p].sched # fire[q].sched
      /\ \A p \in Replica : fire[p].step = "fire" => ~schedule[fire[p].sched].gone
      /\ started \in Seq(Runs)
      /\ request \subseteq Requests
      /\ clock \in 1..MaxClock /\ clock \in Nat /\ served \in Nat
  BY RowsExist DEF SchedTypeOK
<1>b. \A p \in Replica : fire[p].step \in {"fire", "advance", "advancing"} => fire[p] \in Fires
  BY <1>a DEF Idle
<1>1. ASSUME NEW p \in Replica, Select(p) PROVE SchedTypeOK'
  <2>1. PICK s \in Schedule :
          /\ Due(s) /\ ~HeldRow(s)
          /\ \/ /\ schedule' = [schedule EXCEPT ![s].active = FALSE, ![s].next = Null]
                /\ Moved(s) /\ UNCHANGED fire
             \/ /\ UNCHANGED <<schedule, request>>
                /\ \E status \in {"failed", "skipped", "triggered"} :
                     fire' = [fire EXCEPT ![p] = [step |-> "fire", sched |-> s, slot |-> schedule[s].next,
                                                  now |-> clock, status |-> status]]
    BY <1>1 DEF Select
  <2>2. /\ UNCHANGED <<started, clock, served>> /\ ~Busy(p)
        /\ ~schedule[s].gone /\ schedule[s] \in Rows /\ schedule[s].next \in 1..MaxClock
    <3>1. ~NoRow.active /\ ~Dropped.active
      BY DEF NoRow, Dropped
    <3>2. schedule[s] \in Rows
      BY <2>1, <3>1, <1>a DEF Due
    <3>3. schedule[s].next \in Nat
      BY <3>2 DEF Rows
    <3> QED
      BY <1>1, <2>1, <3>2, <3>3, <1>a DEF Select, Due, Null
  <2>3. CASE schedule' = [schedule EXCEPT ![s].active = FALSE, ![s].next = Null] /\ Moved(s) /\ UNCHANGED fire
    <3>1. PICK row : row = [schedule[s] EXCEPT !.active = FALSE, !.next = Null]
      OBVIOUS
    <3>2. row \in Rows /\ schedule' = [schedule EXCEPT ![s] = row]
      BY <2>2, <2>3, <3>1, <1>a DEF Rows, Null
    <3>3. request' \subseteq Requests
      BY <2>3, MovedKeepsRequests
    <3>4. /\ schedule' \in [Schedule -> Rows \union {NoRow, Dropped}]
          /\ \A t \in Schedule : ~schedule[t].gone => ~schedule'[t].gone
      BY <2>2, <3>2, RowWritten
    <3>5. \A q \in Replica : fire'[q].step = "fire" => ~schedule'[fire'[q].sched].gone
      BY <2>3, <3>4, <1>a, <1>b DEF Fires
    <3> QED
      BY <2>2, <2>3, <3>3, <3>4, <3>5, <1>a DEF SchedTypeOK
  <2>4. ASSUME UNCHANGED <<schedule, request>>, NEW status \in {"failed", "skipped", "triggered"},
               fire' = [fire EXCEPT ![p] = [step |-> "fire", sched |-> s, slot |-> schedule[s].next,
                                            now |-> clock, status |-> status]]
        PROVE  SchedTypeOK'
    <3>1. PICK f \in Fires : /\ f.step = "fire" /\ f.sched = s
                            /\ fire' = [fire EXCEPT ![p] = f]
      BY <2>2, <2>4, <1>a DEF Fires
    <3>2. \A q \in Replica : fire[q].step = "fire" => fire[q].sched # s
      BY <2>1 DEF HeldRow
    <3> QED
      BY <2>2, <2>4, <3>1, <3>2, <1>a DEF SchedTypeOK
  <2> QED
    BY <2>1, <2>3, <2>4
<1>2. ASSUME NEW p \in Replica, Commit(p) PROVE SchedTypeOK'
  <2>1. PICK f \in Fires : f = fire[p] /\ ~schedule[f.sched].gone
    BY <1>2, <1>a, <1>b DEF Commit
  <2>2. UNCHANGED <<clock, served>> /\ fire' = [fire EXCEPT ![p] = Idle]
    BY <1>2 DEF Commit
  <2>3. CASE UNCHANGED <<schedule, started, request>>
    BY <2>2, <2>3, <1>a DEF SchedTypeOK, Idle
  <2>4. CASE /\ started' = (IF f.status # "triggered" THEN started
                            ELSE Append(started, [sched |-> f.sched, slot |-> f.slot, on |-> TRUE]))
             /\ schedule' = [schedule EXCEPT ![f.sched] = ApplyNextRun(@, f.now)]
             /\ Moved(f.sched)
    <3>1. f.sched \in Schedule /\ f.slot \in 0..MaxClock /\ f.now \in Nat /\ schedule[f.sched] \in Rows
      BY <2>1, <1>a DEF Fires
    <3>2. started' \in Seq(Runs)
      <4>1. [sched |-> f.sched, slot |-> f.slot, on |-> TRUE] \in Runs
        BY <3>1 DEF Runs
      <4> QED
        BY <2>4, <4>1, <1>a
    <3>3. /\ ApplyNextRun(schedule[f.sched], f.now) \in Rows
          /\ schedule' = [schedule EXCEPT ![f.sched] = ApplyNextRun(schedule[f.sched], f.now)]
      BY <2>4, <3>1, NextRunIsRow
    <3>4. request' \subseteq Requests
      BY <2>4, <3>1, MovedKeepsRequests
    <3>5. /\ schedule' \in [Schedule -> Rows \union {NoRow, Dropped}]
          /\ \A t \in Schedule : ~schedule[t].gone => ~schedule'[t].gone
      BY <2>4, <3>1, <3>3, RowWritten
    <3>6. \A q \in Replica : fire'[q].step = "fire" => fire'[q] = fire[q] /\ fire[q] \in Fires
      BY <2>2, <1>a, <1>b DEF Idle
    <3>7. \A q \in Replica : fire'[q].step = "fire" => ~schedule'[fire'[q].sched].gone
      BY <3>5, <3>6, <1>a DEF Fires
    <3>8. fire' \in [Replica -> Fires \union {Idle}]
      BY <2>2, <1>a
    <3> QED
      BY <2>2, <3>2, <3>4, <3>5, <3>6, <3>7, <3>8, <1>a DEF SchedTypeOK
  <2> QED
    BY <1>2, <2>1, <2>3, <2>4 DEF Commit
<1>3. ASSUME NEW p \in Replica, Raise(p) PROVE SchedTypeOK'
  <2>1. UNCHANGED <<schedule, started, clock, request, served>> /\ fire' = [fire EXCEPT ![p].step = "advance"]
    BY <1>3 DEF Raise
  <2>2. PICK f \in Fires : f.step = "advance" /\ fire' = [fire EXCEPT ![p] = f]
    BY <1>3, <2>1, <1>a, <1>b DEF Raise, Fires
  <2> QED
    BY <2>1, <2>2, <1>a DEF SchedTypeOK
<1>4. ASSUME NEW p \in Replica, Advance(p) PROVE SchedTypeOK'
  <2>1. PICK f \in Fires : f = fire[p] /\ f.step = "advance"
    BY <1>4, <1>b DEF Advance
  <2>2. UNCHANGED <<schedule, started, clock, served>> /\ f.sched \in Schedule
    BY <1>4, <2>1 DEF Advance, Fires
  <2>3. CASE fire' = [fire EXCEPT ![p] = Idle] /\ UNCHANGED request
    BY <2>2, <2>3, <1>a DEF SchedTypeOK, Idle
  <2>4. CASE /\ ~schedule[f.sched].gone /\ fire' = [fire EXCEPT ![p].step = "advancing"]
             /\ request' = request \union {Asked(f.sched, schedule[f.sched], p)}
    <3>1. request' \subseteq Requests
      BY <2>2, <2>4, <1>a, AskedIsRequest
    <3>2. PICK g \in Fires : g.step = "advancing" /\ fire' = [fire EXCEPT ![p] = g]
      BY <2>1, <2>4, <1>a DEF Fires
    <3> QED
      BY <2>2, <3>1, <3>2, <1>a DEF SchedTypeOK
  <2> QED
    BY <1>4, <2>1, <2>3, <2>4 DEF Advance
<1>5. ASSUME NEW p \in Replica, StopReplica(p) PROVE SchedTypeOK'
  <2>1. UNCHANGED <<schedule, started, clock, served>> /\ request' \subseteq request /\ fire' = [fire EXCEPT ![p] = Idle]
    BY <1>5 DEF StopReplica
  <2> QED
    BY <2>1, <1>a DEF SchedTypeOK, Idle
<1>6. ASSUME NEW s \in Schedule, Create(s) PROVE SchedTypeOK'
  <2>1. PICK on \in BOOLEAN, period \in Periods \union {0} :
          schedule' = [schedule EXCEPT ![s] = ApplyNextRun(Row(on, period), clock)]
    BY <1>6 DEF Create
  <2>2. PICK row \in Rows : schedule' = [schedule EXCEPT ![s] = row]
    <3>1. Row(on, period) \in Rows
      BY RowsExist
    <3>2. ApplyNextRun(Row(on, period), clock) \in Rows
      BY <3>1, <1>a, NextRunIsRow
    <3> QED
      BY <2>1, <3>2
  <2>3. UNCHANGED <<started, clock, fire, request>> /\ served' = served + 1
    BY <1>6 DEF Create
  <2> QED
    BY <2>2, <2>3, <1>a, RowsExist DEF SchedTypeOK
<1>7. ASSUME NEW s \in Schedule, Read(s) PROVE SchedTypeOK'
  <2>1. PICK row \in Changed(schedule[s]) :
          request' = request \union {Asked(s, row, served)}
    BY <1>7 DEF Read
  <2>2. row \in Rows
    <3>1. PICK old \in Rows : old = schedule[s]
      BY <1>7, <1>a DEF Read
    <3>2. clock \in Nat /\ clock + 1 \in Nat /\ 0 \in Nat
      BY <1>a
    <3>3. row \in Changed(old)
      BY <3>1
    <3>4. CASE row = [old EXCEPT !.active = TRUE] \/ row = [old EXCEPT !.active = FALSE]
      BY <3>4 DEF Rows
    <3>5. CASE row = [old EXCEPT !.start = clock + 1] \/ row = [old EXCEPT !.end = clock] \/ row = [old EXCEPT !.end = 0]
      BY <3>2, <3>5 DEF Rows
    <3>6. CASE \E period \in Periods \union {0} : row = [old EXCEPT !.period = period]
      BY <3>6 DEF Rows
    <3> QED
      BY <3>3, <3>4, <3>5, <3>6 DEF Changed, Null
  <2>3. UNCHANGED <<schedule, started, clock, fire>> /\ served' = served + 1 /\ ~schedule[s].gone
    BY <1>7 DEF Read
  <2>4. request' \subseteq Requests
    BY <2>1, <2>2, <2>3, <1>a, AskedIsRequest
  <2> QED
    BY <2>3, <2>4, <1>a DEF SchedTypeOK
<1>8. ASSUME NEW s \in Schedule, Delete(s) PROVE SchedTypeOK'
  <2>1. /\ UNCHANGED <<started, clock, fire, request>> /\ served' = served + 1
        /\ schedule' = [schedule EXCEPT ![s] = Dropped] /\ ~HeldRow(s)
    BY <1>8 DEF Delete
  <2>2. \A q \in Replica : fire[q].step = "fire" => fire[q].sched # s
    BY <2>1 DEF HeldRow
  <2> QED
    BY <2>1, <2>2, <1>a, RowsExist DEF SchedTypeOK
<1>9. ASSUME NEW s \in Schedule, RunNow(s) PROVE SchedTypeOK'
  <2>1. UNCHANGED <<schedule, fire, clock, request>> /\ served' = served + 1
        /\ started' = Append(started, [sched |-> s, slot |-> Null, on |-> TRUE])
    BY <1>9 DEF RunNow
  <2>2. [sched |-> s, slot |-> Null, on |-> TRUE] \in Runs
    BY DEF Null, Runs
  <2> QED
    BY <2>1, <2>2, <1>a DEF SchedTypeOK
<1>10. ASSUME NEW r \in request, Write(r) PROVE SchedTypeOK'
  <2>1. r \in Requests /\ r.sched \in Schedule
    BY <1>a DEF Requests
  <2>2. UNCHANGED <<started, clock, served>> /\ fire' = [p \in Replica |-> IF p = r.by THEN Idle ELSE fire[p]]
    BY <1>10 DEF Write
  <2>a. /\ fire' \in [Replica -> Fires \union {Idle}]
        /\ \A p \in Replica : fire'[p].step = "fire" => fire'[p] = fire[p] /\ fire[p] \in Fires
    BY <2>2, <1>a, <1>b DEF Idle
  <2>3. CASE request' = request \ {r} /\ UNCHANGED schedule
    BY <2>2, <2>3, <2>a, <1>a DEF SchedTypeOK
  <2>4. CASE /\ ~schedule[r.sched].gone /\ schedule' = [schedule EXCEPT ![r.sched] = Merged(@, r.old, r.new)]
             /\ request' = {IF q.sched = r.sched THEN [q EXCEPT !.raced = TRUE] ELSE q : q \in request \ {r}}
    <3>1. /\ Merged(schedule[r.sched], r.old, r.new) \in Rows
          /\ schedule' = [schedule EXCEPT ![r.sched] = Merged(schedule[r.sched], r.old, r.new)]
      <4>1. schedule[r.sched] \in Rows /\ r.old \in Rows /\ r.new \in Rows
        BY <2>1, <2>4, <1>a DEF Requests
      <4>2. Merged(schedule[r.sched], r.old, r.new) \in Rows
        BY <4>1, MergedIsRow
      <4> QED
        BY <2>4, <4>2
    <3>2. request' \subseteq Requests
      <4> SUFFICES ASSUME NEW n \in request', NEW q \in request,
                          n = IF q.sched = r.sched THEN [q EXCEPT !.raced = TRUE] ELSE q
                   PROVE  n \in Requests
        BY <2>4
      <4> QED
        BY <1>a DEF Requests
    <3>3. /\ schedule' \in [Schedule -> Rows \union {NoRow, Dropped}]
          /\ \A t \in Schedule : ~schedule[t].gone => ~schedule'[t].gone
      BY <2>1, <3>1, RowWritten
    <3>4. \A q \in Replica : fire'[q].step = "fire" => ~schedule'[fire'[q].sched].gone
      BY <3>3, <2>a, <1>a DEF Fires
    <3> QED
      BY <2>2, <2>a, <3>2, <3>3, <3>4, <1>a DEF SchedTypeOK
  <2> QED
    BY <1>10, <2>3, <2>4 DEF Write
<1>11. ASSUME SwitchJob PROVE SchedTypeOK'
  BY <1>11, <1>a DEF SwitchJob, SchedTypeOK
<1>12. ASSUME Tick PROVE SchedTypeOK'
  BY <1>12, <1>a DEF Tick, SchedTypeOK
<1>13. ASSUME NEW e \in DOMAIN started, ExecutionEnds(e) PROVE SchedTypeOK'
  <2>1. UNCHANGED <<schedule, fire, clock, request, served>> /\ started' = [started EXCEPT ![e].on = FALSE]
    BY <1>13 DEF ExecutionEnds
  <2>2. started' \in Seq(Runs)
    <3>1. started[e] \in Runs
      BY <1>a
    <3>2. [started[e] EXCEPT !.on = FALSE] \in Runs
      BY <3>1 DEF Runs
    <3> QED
      BY <2>1, <3>2, <1>a
  <2> QED
    BY <2>1, <2>2, <1>a DEF SchedTypeOK
<1>14. CASE UNCHANGED schedVars
  BY <1>14, <1>a DEF schedVars, SchedTypeOK
<1> QED
  BY <1>1, <1>2, <1>3, <1>4, <1>5, <1>6, <1>7, <1>8, <1>9, <1>10, <1>11, <1>12, <1>13, <1>14 DEF SchedNext, FireStep

-----------------------------------------------------------------------------
(* One execution per slot *)

\* A primary key is used once, and a recorded slot stays recorded as long as its schedule exists.
KeysLast ==
  \A s \in Schedule :
    /\ schedule[s].used => schedule'[s].used /\ (schedule[s].gone => schedule'[s].gone)
    /\ \A slot : SlotTaken(s, slot) => schedule'[s].gone \/ SlotTaken(s, slot)'

LEMMA KeysStep ==
  ASSUME SchedTypeOK, SchedTypeOK', [SchedNext]_schedVars
  PROVE  KeysLast
<1>a. /\ schedule \in [Schedule -> Rows \union {NoRow, Dropped}]
      /\ schedule' \in [Schedule -> Rows \union {NoRow, Dropped}]
      /\ \A s \in Schedule : (~schedule[s].gone <=> schedule[s] \in Rows) /\ (schedule[s] \in Rows => schedule[s].used)
      /\ \A s \in Schedule : schedule'[s] \in Rows => schedule'[s].used /\ ~schedule'[s].gone
  BY RowsExist DEF SchedTypeOK
<1>b. \A r \in request : r.sched \in Schedule
  BY DEF SchedTypeOK, Requests
\* A row that a handler writes existed before and exists after.
<1>c. ASSUME NEW s \in Schedule, schedule[s] \in Rows, slotRun \subseteq slotRun',
             \A t \in Schedule \ {s} : schedule'[t] = schedule[t],
             schedule'[s] \in Rows
      PROVE  KeysLast
  BY <1>c, <1>a DEF KeysLast, SlotTaken
<1>d. ASSUME UNCHANGED schedule, slotRun \subseteq slotRun' PROVE KeysLast
  BY <1>d DEF KeysLast, SlotTaken
<1>1. ASSUME NEW p \in Replica, Select(p) PROVE KeysLast
  <2>1. PICK s \in Schedule : /\ Due(s)
                             /\ \/ schedule' = [schedule EXCEPT ![s].active = FALSE, ![s].next = Null]
                                \/ UNCHANGED schedule
    BY <1>1 DEF Select
  <2>2. schedule[s] \in Rows
    BY <2>1, <1>a DEF Due, NoRow, Dropped
  <2>3. [schedule[s] EXCEPT !.active = FALSE, !.next = Null] \in Rows
    BY <2>2 DEF Rows, Null
  <2> QED
    BY <1>1, <2>1, <2>2, <2>3, <1>a, <1>c, <1>d DEF Select
<1>2. ASSUME NEW p \in Replica, Commit(p) PROVE KeysLast
  <2>1. PICK s \in Schedule : s = fire[p].sched /\ schedule[s] \in Rows
    BY <1>2, <1>a DEF Commit, SchedTypeOK, Fires, Idle
  <2>2. \/ UNCHANGED <<schedule, slotRun>>
        \/ /\ slotRun \subseteq slotRun'
           /\ schedule' = [schedule EXCEPT ![s] = ApplyNextRun(@, fire[p].now)]
    BY <1>2, <2>1 DEF Commit
  <2>3. ApplyNextRun(schedule[s], fire[p].now) \in Rows
    BY <1>2, <2>1, NextRunIsRow DEF Commit, SchedTypeOK, Fires, Idle
  <2> QED
    BY <2>1, <2>2, <2>3, <1>a, <1>c, <1>d
<1>5. ASSUME NEW s \in Schedule, Create(s) PROVE KeysLast
  <2>1. ~schedule[s].used /\ slotRun' = slotRun /\ \A t \in Schedule \ {s} : schedule'[t] = schedule[t]
    BY <1>5, <1>a DEF Create
  <2>2. schedule'[s] \in Rows
    <3>1. PICK on \in BOOLEAN, period \in Periods \union {0} :
            schedule' = [schedule EXCEPT ![s] = ApplyNextRun(Row(on, period), clock)]
      BY <1>5 DEF Create
    <3> QED
      BY <3>1, <1>a, RowsExist, NextRunIsRow DEF SchedTypeOK
  <2> QED
    BY <2>1, <2>2, <1>a DEF KeysLast, SlotTaken
<1>6. ASSUME NEW s \in Schedule, Delete(s) PROVE KeysLast
  <2>1. /\ schedule' = [schedule EXCEPT ![s] = Dropped]
        /\ slotRun' = {run \in slotRun : run[1] # s}
    BY <1>6 DEF Delete
  <2> QED
    BY <2>1, <1>a, RowsExist DEF KeysLast, SlotTaken
<1>7. ASSUME NEW r \in request, Write(r) PROVE KeysLast
  <2>1. r.sched \in Schedule /\ slotRun' = slotRun
    BY <1>7, <1>b DEF Write
  <2>2. CASE UNCHANGED schedule
    BY <2>1, <2>2, <1>d
  <2>3. CASE ~schedule[r.sched].gone /\ schedule' = [schedule EXCEPT ![r.sched] = Merged(@, r.old, r.new)]
    <3>1. schedule[r.sched] \in Rows /\ r.old \in Rows /\ r.new \in Rows
      BY <2>1, <2>3, <1>a DEF SchedTypeOK, Requests
    <3>2. Merged(schedule[r.sched], r.old, r.new) \in Rows
      BY <3>1, MergedIsRow
    <3> QED
      BY <2>1, <2>3, <3>1, <3>2, <1>a, <1>c
  <2> QED
    BY <1>7, <2>2, <2>3 DEF Write
<1>8. ASSUME UNCHANGED <<schedule, slotRun>> PROVE KeysLast
  BY <1>8, <1>d
<1> QED
  BY <1>1, <1>2, <1>5, <1>6, <1>7, <1>8
  DEF SchedNext, FireStep, schedVars, Raise, Advance, StopReplica, Read, RunNow, SwitchJob, Tick, ExecutionEnds

\* A slot that started an execution stays recorded, and its schedule's primary key used.
SlotsRecorded ==
  \A e \in DOMAIN started : started[e].slot # Null =>
    /\ schedule[started[e].sched].used
    /\ ~schedule[started[e].sched].gone => SlotTaken(started[e].sched, started[e].slot)

\* The slots of the executions are those there were, or one more of a schedule that exists.
LEMMA StartedStep ==
  ASSUME SchedTypeOK, [SchedNext]_schedVars
  PROVE  \/ /\ DOMAIN started' = DOMAIN started
            /\ \A e \in DOMAIN started : /\ started'[e].sched = started[e].sched
                                         /\ started'[e].slot = started[e].slot
         \/ \E s \in Schedule : \E slot \in 0..MaxClock :
              /\ started' = Append(started, [sched |-> s, slot |-> slot, on |-> TRUE])
              /\ slot # Null => /\ ~SlotTaken(s, slot) /\ SlotTaken(s, slot)'
                                /\ ~schedule[s].gone
<1>1. ASSUME NEW p \in Replica, Commit(p), started' # started
      PROVE  \E s \in Schedule : \E slot \in 0..MaxClock :
               /\ started' = Append(started, [sched |-> s, slot |-> slot, on |-> TRUE])
               /\ slot # Null => /\ ~SlotTaken(s, slot) /\ SlotTaken(s, slot)'
                                 /\ ~schedule[s].gone
  <2>1. PICK f \in Fires : f = fire[p] /\ ~schedule[f.sched].gone
    BY <1>1 DEF Commit, SchedTypeOK, Idle
  <2>2. /\ f.sched \in Schedule /\ f.slot \in 0..MaxClock
        /\ ~SlotTaken(f.sched, f.slot) /\ slotRun' = slotRun \union {<<f.sched, f.slot, f.status>>}
        /\ started' = Append(started, [sched |-> f.sched, slot |-> f.slot, on |-> TRUE])
    BY <1>1, <2>1 DEF Commit, Fires
  <2>3. SlotTaken(f.sched, f.slot)'
    <3>1. PICK run : run = <<f.sched, f.slot, f.status>>
      OBVIOUS
    <3>2. run \in slotRun' /\ run[1] = f.sched /\ run[2] = f.slot
      BY <2>2, <3>1
    <3> QED
      BY <3>2 DEF SlotTaken
  <2> QED
    BY <2>1, <2>2, <2>3
<1>2. ASSUME NEW s \in Schedule, RunNow(s)
      PROVE  started' = Append(started, [sched |-> s, slot |-> 0, on |-> TRUE]) /\ 0 \in 0..MaxClock
  BY <1>2, SchedulerAssumption DEF RunNow, Null
<1>3. ASSUME NEW e \in DOMAIN started, ExecutionEnds(e)
      PROVE  /\ DOMAIN started' = DOMAIN started
             /\ \A d \in DOMAIN started : /\ started'[d].sched = started[d].sched
                                          /\ started'[d].slot = started[d].slot
  BY <1>3 DEF ExecutionEnds, SchedTypeOK, Runs
<1>4. ASSUME UNCHANGED started
      PROVE  /\ DOMAIN started' = DOMAIN started
             /\ \A e \in DOMAIN started : /\ started'[e].sched = started[e].sched
                                          /\ started'[e].slot = started[e].slot
  BY <1>4
<1> QED
  BY <1>1, <1>2, <1>3, <1>4
  DEF SchedNext, FireStep, schedVars, Select, Advance, Raise, StopReplica, Create, Read, Delete, Write, SwitchJob, Tick, Null

LEMMA OnceStep ==
  SchedTypeOK /\ SchedTypeOK' /\ SlotsRecorded /\ FiresOncePerSlot /\ [SchedNext]_schedVars
    => SlotsRecorded' /\ FiresOncePerSlot'
<1> SUFFICES ASSUME SchedTypeOK, SchedTypeOK', SlotsRecorded, FiresOncePerSlot, [SchedNext]_schedVars
             PROVE  SlotsRecorded' /\ FiresOncePerSlot'
  OBVIOUS
<1>1. KeysLast
  BY KeysStep
<1>2. /\ started \in Seq(Runs) /\ \A e \in DOMAIN started : started[e].sched \in Schedule
      /\ \A s \in Schedule : ~schedule[s].gone => schedule[s].used
  <2>1. started \in Seq(Runs)
    BY DEF SchedTypeOK
  <2>2. \A e \in DOMAIN started : started[e] \in Runs
    BY <2>1
  <2>3. \A s \in Schedule : ~schedule[s].gone => schedule[s].used
    BY RowsExist DEF SchedTypeOK
  <2> QED
    BY <2>1, <2>2, <2>3 DEF Runs
<1>3. CASE /\ DOMAIN started' = DOMAIN started
           /\ \A e \in DOMAIN started : /\ started'[e].sched = started[e].sched
                                        /\ started'[e].slot = started[e].slot
  <2>1. SlotsRecorded'
    BY <1>1, <1>2, <1>3 DEF SlotsRecorded, KeysLast
  <2> QED
    BY <2>1, <1>3 DEF FiresOncePerSlot
<1>4. ASSUME NEW s \in Schedule, NEW slot \in 0..MaxClock,
             started' = Append(started, [sched |-> s, slot |-> slot, on |-> TRUE]),
             slot # Null => ~SlotTaken(s, slot) /\ SlotTaken(s, slot)' /\ ~schedule[s].gone
      PROVE  SlotsRecorded' /\ FiresOncePerSlot'
  <2>1. /\ DOMAIN started' = DOMAIN started \union {Len(started) + 1} /\ Len(started) + 1 \notin DOMAIN started
        /\ \A e \in DOMAIN started : started'[e] = started[e]
        /\ started'[Len(started) + 1].sched = s /\ started'[Len(started) + 1].slot = slot
    BY <1>2, <1>4
  <2>2. ASSUME NEW e \in DOMAIN started, started[e].slot # Null
        PROVE  /\ schedule'[started[e].sched].used
               /\ ~schedule'[started[e].sched].gone => SlotTaken(started[e].sched, started[e].slot)'
               /\ ~(started[e].sched = s /\ started[e].slot = slot)
    BY <1>1, <1>2, <1>4, <2>2 DEF SlotsRecorded, KeysLast
  <2>3. slot # Null => schedule'[s].used
    BY <1>1, <1>2, <1>4 DEF KeysLast
  <2>4. SlotsRecorded'
    BY <1>4, <2>1, <2>2, <2>3 DEF SlotsRecorded
  <2>5. FiresOncePerSlot'
    BY <2>1, <2>2 DEF FiresOncePerSlot
  <2> QED
    BY <2>4, <2>5
<1> QED
  BY <1>3, <1>4, StartedStep

LEMMA SchedTypeInit == SchedInit => SchedTypeOK
<1> SUFFICES ASSUME SchedInit PROVE SchedTypeOK
  OBVIOUS
<1>1. PICK on \in BOOLEAN, period \in Periods :
        schedule = [s \in Schedule |-> IF s \in Given THEN ApplyNextRun(Row(on, period), 1) ELSE NoRow]
  BY DEF SchedInit
<1>2. Row(on, period) \in Rows
  BY RowsExist
<1>3. ApplyNextRun(Row(on, period), 1) \in Rows
  BY <1>2, NextRunIsRow
<1>4. schedule \in [Schedule -> Rows \union {NoRow, Dropped}]
  BY <1>1, <1>3
<1>5. started \in Seq(Runs)
  BY DEF SchedInit
<1> QED
  BY <1>4, <1>5, SchedulerAssumption DEF SchedInit, SchedTypeOK, Idle

\* The rows, the fires and the requests stay well formed, and no two replicas hold a row, for any
\* number of replicas, schedules and requests.
THEOREM SchedTypeCorrect == SchedSpec => []SchedTypeOK
  BY SchedTypeInit, SchedTypeStep, PTL DEF SchedSpec

\* However many replicas select a due row, crash or lose a race, and however requests move its next
\* run back, a planned instant starts one execution: _fire_one records the slot with the
\* execution, and the unique constraint refuses the second.
THEOREM OncePerSlot == SchedSpec => []FiresOncePerSlot
<1>1. SchedInit => SlotsRecorded /\ FiresOncePerSlot
  BY DEF SchedInit, SlotsRecorded, FiresOncePerSlot
<1> QED
  BY <1>1, OnceStep, SchedTypeCorrect, PTL DEF SchedSpec

-----------------------------------------------------------------------------
(* The bound on overlap *)

\* The active executions of planned instants, and the replicas about to start one.
Planned == {e \in DOMAIN started : started[e].on /\ started[e].slot # Null}
Starting == {p \in Replica : fire[p].step = "fire" /\ fire[p].status = "triggered"}

\* Each replica that counted has room for one.
RoomForEach ==
  MaxActiveRuns > 0 =>
    Cardinality(Planned) + Cardinality(Starting) <= MaxActiveRuns + Cardinality(Replica) - 1

LEMMA PartsFinite ==
  ASSUME NEW runs \in Seq(Runs), NEW A, A \subseteq DOMAIN runs, NEW R, R \subseteq Replica
  PROVE  /\ IsFiniteSet(A) /\ IsFiniteSet(R) /\ IsFiniteSet(Replica)
         /\ Cardinality(A) \in Nat /\ Cardinality(R) \in Nat /\ Cardinality(Replica) \in Nat
         /\ Cardinality(R) <= Cardinality(Replica)
<1>1. IsFiniteSet(DOMAIN runs)
  <2>1. DOMAIN runs = 1..Len(runs) /\ Len(runs) \in Nat
    OBVIOUS
  <2> QED
    BY <2>1, FS_Interval
<1> QED
  BY <1>1, SchedulerAssumption, FS_Subset, FS_CardinalityType

LEMMA PlannedFinite ==
  ASSUME SchedTypeOK
  PROVE  /\ IsFiniteSet(Planned) /\ IsFiniteSet(Starting) /\ IsFiniteSet(Replica)
         /\ Cardinality(Planned) \in Nat /\ Cardinality(Starting) \in Nat /\ Cardinality(Replica) \in Nat
         /\ Cardinality(Starting) <= Cardinality(Replica)
         /\ Cardinality(Planned) <= ActiveRuns /\ ActiveRuns \in Nat
<1> DEFINE Active == {e \in DOMAIN started : started[e].on}
<1>1. /\ Planned \subseteq Active /\ Active \subseteq DOMAIN started /\ ActiveRuns = Cardinality(Active)
      /\ Starting \subseteq Replica /\ started \in Seq(Runs)
  BY DEF Planned, Starting, ActiveRuns, Quantify, SchedTypeOK
<1> HIDE DEF Active
<1>2. /\ IsFiniteSet(Active) /\ IsFiniteSet(Planned) /\ IsFiniteSet(Starting) /\ IsFiniteSet(Replica)
      /\ Cardinality(Active) \in Nat /\ Cardinality(Planned) \in Nat
      /\ Cardinality(Starting) \in Nat /\ Cardinality(Replica) \in Nat
      /\ Cardinality(Starting) <= Cardinality(Replica)
  BY <1>1, PartsFinite
<1>3. Cardinality(Planned) <= Cardinality(Active)
  BY <1>1, <1>2, FS_Subset
<1> QED
  BY <1>1, <1>2, <1>3

\* A step starts no execution and readies no replica, or a replica that readied starts one, or one
\* readies that found room.
LEMMA RoomChanges ==
  ASSUME SchedTypeOK, [SchedNext]_schedVars
  PROVE  \/ Planned' \subseteq Planned /\ Starting' \subseteq Starting
         \/ Planned' = Planned /\ Starting' \subseteq Replica /\ (MaxActiveRuns > 0 => ActiveRuns < MaxActiveRuns)
         \/ \E p \in Starting : \E e : Planned' \subseteq Planned \union {e} /\ Starting' \subseteq Starting \ {p}
<1>a. started \in Seq(Runs) /\ DOMAIN started = 1..Len(started) /\ Len(started) \in Nat
  BY DEF SchedTypeOK
<1>b. fire \in [Replica -> Fires \union {Idle}]
  BY DEF SchedTypeOK
<1>1. ASSUME NEW p \in Replica, Select(p)
      PROVE  \/ Planned' \subseteq Planned /\ Starting' \subseteq Starting
             \/ Planned' = Planned /\ Starting' \subseteq Replica /\ (MaxActiveRuns > 0 => ActiveRuns < MaxActiveRuns)
  <2>1. started' = started /\ Planned' = Planned /\ Starting' \subseteq Replica
    BY <1>1 DEF Select, Planned, Starting
  <2>2. CASE UNCHANGED fire
    BY <2>1, <2>2 DEF Starting
  <2>3. CASE MaxActiveRuns > 0 /\ ActiveRuns >= MaxActiveRuns
    <3>1. PICK s \in Schedule, status \in {"failed", "skipped"} :
            \/ UNCHANGED fire
            \/ fire' = [fire EXCEPT ![p] = [step |-> "fire", sched |-> s, slot |-> schedule[s].next,
                                            now |-> clock, status |-> status]]
      <4>1. CASE jobOn
        BY <1>1, <2>3, <4>1 DEF Select
      <4>2. CASE ~jobOn
        BY <1>1, <2>3, <4>2 DEF Select
      <4> QED
        BY <4>1, <4>2
    <3>2. CASE ~UNCHANGED fire
      <4>1. fire'[p].status # "triggered" /\ \A q \in Replica \ {p} : fire'[q] = fire[q]
        BY <3>1, <3>2, <1>b
      <4> QED
        BY <2>1, <4>1 DEF Starting
    <3> QED
      BY <2>2, <3>2
  <2>4. CASE ~(MaxActiveRuns > 0 /\ ActiveRuns >= MaxActiveRuns)
    BY <2>1, <2>4, PlannedFinite, SchedulerAssumption
  <2> QED
    BY <2>3, <2>4
<1>2. ASSUME NEW p \in Replica, Commit(p)
      PROVE  \/ Planned' \subseteq Planned /\ Starting' \subseteq Starting
             \/ \E q \in Starting : \E e : Planned' \subseteq Planned \union {e} /\ Starting' \subseteq Starting \ {q}
  <2>1. fire' = [fire EXCEPT ![p] = Idle] /\ fire[p].step = "fire" /\ Idle.step = "idle"
    BY <1>2 DEF Commit, Idle
  <2>2. Starting' \subseteq Starting \ {p}
    BY <2>1, <1>b DEF Starting
  <2>3. CASE started' = started
    BY <2>2, <2>3 DEF Planned
  <2>4. CASE started' # started
    <3>1. /\ fire[p].status = "triggered"
          /\ started' = Append(started, [sched |-> fire[p].sched, slot |-> fire[p].slot, on |-> TRUE])
      BY <1>2, <2>4 DEF Commit
    <3>2. Planned' \subseteq Planned \union {Len(started) + 1}
      BY <3>1, <1>a DEF Planned
    <3> QED
      BY <2>1, <2>2, <3>1, <3>2 DEF Starting
  <2> QED
    BY <2>3, <2>4
<1>3. ASSUME NEW p \in Replica, Raise(p) \/ StopReplica(p) \/ Advance(p)
      PROVE  Planned' \subseteq Planned /\ Starting' \subseteq Starting
  <2>1. started' = started /\ \A q \in Replica \ {p} : fire'[q] = fire[q]
    BY <1>3, <1>b DEF Raise, StopReplica, Advance
  <2>2. fire'[p].step # "fire"
    BY <1>3, <1>b DEF Raise, StopReplica, Advance, Idle, Fires
  <2> QED
    BY <2>1, <2>2 DEF Planned, Starting
<1>4. ASSUME NEW s \in Schedule, RunNow(s)
      PROVE  Planned' \subseteq Planned /\ Starting' \subseteq Starting
  <2>1. fire' = fire /\ started' = Append(started, [sched |-> s, slot |-> Null, on |-> TRUE])
    BY <1>4 DEF RunNow
  <2> QED
    BY <2>1, <1>a DEF Planned, Starting
<1>5. ASSUME NEW e \in DOMAIN started, ExecutionEnds(e)
      PROVE  Planned' \subseteq Planned /\ Starting' \subseteq Starting
  <2>1. fire' = fire /\ started' = [started EXCEPT ![e].on = FALSE]
    BY <1>5 DEF ExecutionEnds
  <2>2. started[e] \in Runs
    BY <1>a
  <2> QED
    BY <2>1, <2>2, <1>a DEF Planned, Starting, Runs
<1>6. ASSUME UNCHANGED <<started, fire>>
      PROVE  Planned' \subseteq Planned /\ Starting' \subseteq Starting
  BY <1>6 DEF Planned, Starting
<1>7. ASSUME NEW r \in request, Write(r)
      PROVE  Planned' \subseteq Planned /\ Starting' \subseteq Starting
  <2>1. started' = started /\ fire' = [p \in Replica |-> IF p = r.by THEN Idle ELSE fire[p]]
    BY <1>7 DEF Write
  <2> QED
    BY <2>1 DEF Planned, Starting, Idle
<1> QED
  BY <1>1, <1>2, <1>3, <1>4, <1>5, <1>6, <1>7
  DEF SchedNext, FireStep, schedVars, Create, Read, Delete, SwitchJob, Tick

LEMMA RoomStep == SchedTypeOK /\ SchedTypeOK' /\ RoomForEach /\ [SchedNext]_schedVars => RoomForEach'
<1> SUFFICES ASSUME SchedTypeOK, SchedTypeOK', RoomForEach, [SchedNext]_schedVars, MaxActiveRuns > 0
             PROVE  Cardinality(Planned') + Cardinality(Starting') <= MaxActiveRuns + Cardinality(Replica) - 1
  BY DEF RoomForEach
<1>1. /\ IsFiniteSet(Planned) /\ IsFiniteSet(Starting)
      /\ Cardinality(Planned) \in Nat /\ Cardinality(Starting) \in Nat /\ Cardinality(Replica) \in Nat
      /\ Cardinality(Planned) <= ActiveRuns /\ ActiveRuns \in Nat /\ MaxActiveRuns \in Nat
  BY PlannedFinite, SchedulerAssumption
<1>2. /\ IsFiniteSet(Planned') /\ IsFiniteSet(Starting')
      /\ Cardinality(Planned') \in Nat /\ Cardinality(Starting') \in Nat
      /\ Cardinality(Starting') <= Cardinality(Replica)
  <2>1. Planned' \subseteq DOMAIN started' /\ started' \in Seq(Runs) /\ Starting' \subseteq Replica
    BY DEF Planned, Starting, SchedTypeOK
  <2> QED
    BY <2>1, PartsFinite
<1>3. CASE Planned' \subseteq Planned /\ Starting' \subseteq Starting
  BY <1>1, <1>2, <1>3, FS_Subset DEF RoomForEach
<1>4. CASE Planned' = Planned /\ (MaxActiveRuns > 0 => ActiveRuns < MaxActiveRuns)
  BY <1>1, <1>2, <1>4
<1>5. ASSUME NEW p \in Starting, NEW e, Planned' \subseteq Planned \union {e}, Starting' \subseteq Starting \ {p}
      PROVE  Cardinality(Planned') + Cardinality(Starting') <= MaxActiveRuns + Cardinality(Replica) - 1
  <2>1. Cardinality(Planned \union {e}) <= Cardinality(Planned) + 1 /\ IsFiniteSet(Planned \union {e})
    <3>1. IsFiniteSet(Planned \union {e})
          /\ Cardinality(Planned \union {e}) = IF e \in Planned THEN Cardinality(Planned) ELSE Cardinality(Planned) + 1
      BY <1>1, FS_AddElement, Zenon
    <3> QED
      BY <1>1, <3>1
  <2>2. Cardinality(Starting \ {p}) = Cardinality(Starting) - 1 /\ IsFiniteSet(Starting \ {p})
    BY <1>1, FS_RemoveElement
  <2>3. Cardinality(Planned') <= Cardinality(Planned) + 1 /\ Cardinality(Starting') <= Cardinality(Starting) - 1
    BY <1>1, <1>2, <1>5, <2>1, <2>2, FS_Subset, FS_CardinalityType
  <2> QED
    BY <1>1, <1>2, <2>3 DEF RoomForEach
<1> QED
  BY <1>3, <1>4, <1>5, RoomChanges

\* The count of active executions comes before the insert that it allows, so concurrent replicas
\* may pass max_active_runs, each by one execution; a crash, a rollback or a manual run does not
\* add to that.
THEOREM OverlapIsBounded == SchedSpec => []OverlapBounded
<1>1. SchedInit => RoomForEach
  <2> SUFFICES ASSUME SchedInit, MaxActiveRuns > 0
               PROVE  Cardinality(Planned) + Cardinality(Starting) <= MaxActiveRuns + Cardinality(Replica) - 1
    BY DEF RoomForEach
  <2>1. Planned = {} /\ Starting = {}
    BY DEF SchedInit, Planned, Starting, Idle
  <2>2. Cardinality(Replica) \in Nat
    BY SchedulerAssumption, FS_CardinalityType
  <2> QED
    BY <2>1, <2>2, FS_EmptySet, SchedulerAssumption
<1>2. SchedTypeOK /\ RoomForEach => OverlapBounded
  <2> SUFFICES ASSUME SchedTypeOK, RoomForEach, MaxActiveRuns > 0
               PROVE  Cardinality(Planned) <= MaxActiveRuns + Cardinality(Replica) - 1
    BY DEF OverlapBounded, Planned, Quantify
  <2> QED
    BY PlannedFinite, SchedulerAssumption DEF RoomForEach
<1> QED
  BY <1>1, <1>2, RoomStep, SchedTypeCorrect, PTL DEF SchedSpec
=============================================================================
