-------------------------------- MODULE Alerts --------------------------------
(***************************************************************************)
(* Alert notifications (features/alerts): emit queues one for every        *)
(* channel that subscribes to an event, in the caller's transaction; the   *)
(* dispatcher of the orchestrating worker delivers a batch and commits its *)
(* outcome once, at the end; requests test, resend and change channels.    *)
(* The monitors emit what no execution reports: late schedules and silent  *)
(* workers.                                                                *)
(***************************************************************************)
EXTENDS Integers, FiniteSets, Sequences, SequencesExt

CONSTANTS
  Channel,          \* alert channels
  Emitter,          \* processes that emit: workers, the scheduler, requests
  Event,            \* event types, by their severity: [Event -> 0..2]
  AlertMaxAttempts, \* alert_max_attempts
  AlertBatch,       \* notifications sent in one dispatch
  AlertWindow,      \* those it chooses among (3 times as many in the code)
  MaxNotifs,        \* bound: notifications
  MaxChannelRequests, \* bound: changes of channels, tests, resends, monitored conditions
  MaxAlertFaults    \* bound: emits rolled back, dispatches that do not commit

ASSUME AlertsAssumption == MaxNotifs \in Nat /\ IsFiniteSet(Channel)

VARIABLES
  channel,     \* alert_channels: active, subscribed events ({}: all), min_severity, deleted
  notif,       \* alert_notifications by id
  emitting,    \* the notifications each emitter has flushed and not committed
  batch,       \* the dispatcher: the rows it has to send, as it has them before its commit
  resending,   \* the resend that was sent and not committed
  late,        \* conditions the monitors look at: which hold, and of which they told
  received,    \* history: deliveries each target accepted
  excused,     \* history: resends and dispatches lost, per notification
  channelRequests, alertFaults

alertVars == <<channel, notif, emitting, batch, resending, late, received, excused,
               channelRequests, alertFaults>>

NoBatch == [row |-> <<>>, known |-> {}, open |-> FALSE]
NoResend == [id |-> 0, outcome |-> "none", attempts |-> 0]
Alerted == {"pending", "failed"}
AlertEnds == {"sent", "dead"}
Notifs == 1..Len(notif)

AlertInit ==
  /\ channel = [c \in Channel |-> [on |-> TRUE, events |-> {}, min |-> 1, gone |-> FALSE]]
  /\ notif = <<>> /\ received = <<>> /\ excused = <<>>
  /\ emitting = [p \in Emitter |-> {}]
  /\ batch = NoBatch /\ resending = NoResend
  /\ late = [holds |-> FALSE, told |-> FALSE]
  /\ channelRequests = 0 /\ alertFaults = 0

Subscribed(c, event) ==
  /\ channel[c].on /\ ~channel[c].gone
  /\ channel[c].events = {} \/ event \in channel[c].events
  /\ Event[event] >= channel[c].min
\* An identical notification within alert_dedup_seconds: one that is committed.  (The check and the insert
\* are one step here: two emitters at once may both pass the check in the code.)
Duplicate(c, event) ==
  \E n \in Notifs : /\ notif[n].channel = c /\ notif[n].event = event
                    /\ notif[n].recent /\ notif[n].status # "hidden"

Queued(event, status) ==
  LET chosen == SetToSeq({c \in Channel : Subscribed(c, event) /\ ~Duplicate(c, event)})
  IN [i \in 1..Len(chosen) |-> [channel |-> chosen[i], event |-> event, status |-> status,
                                attempts |-> 0, cooling |-> FALSE, recent |-> TRUE]]
Add(rows) ==
  /\ Len(notif) + Len(rows) <= MaxNotifs
  /\ notif' = notif \o rows
  /\ received' = received \o [i \in 1..Len(rows) |-> 0]
  /\ excused' = excused \o [i \in 1..Len(rows) |-> 0]

\* emit, in the caller's transaction.
Emit(p, event) ==
  /\ emitting[p] = {}
  /\ Queued(event, "hidden") # <<>> /\ Add(Queued(event, "hidden"))
  /\ emitting' = [emitting EXCEPT ![p] = (Len(notif) + 1)..Len(notif')]
  /\ UNCHANGED <<channel, batch, resending, late, channelRequests, alertFaults>>

EmitEnds(p, status) ==
  /\ emitting[p] # {} /\ emitting' = [emitting EXCEPT ![p] = {}]
  /\ notif' = [n \in Notifs |-> IF n \in emitting[p] THEN [notif[n] EXCEPT !.status = status] ELSE notif[n]]
  /\ UNCHANGED <<channel, batch, resending, late, received, excused, channelRequests>>
EmitCommits(p) == EmitEnds(p, "pending") /\ UNCHANGED alertFaults
EmitRollsBack(p) ==
  EmitEnds(p, "rolled back") /\ alertFaults < MaxAlertFaults /\ alertFaults' = alertFaults + 1

\* check_schedule_overdue, check_worker_down: emitted and committed once for as long as the
\* condition holds; an emit that failed counts as told.
Condition ==
  /\ late' = [late EXCEPT !.holds = ~@]
  /\ late.holds \/ channelRequests < MaxChannelRequests
  /\ channelRequests' = channelRequests + IF late.holds THEN 0 ELSE 1
  /\ UNCHANGED <<channel, notif, emitting, batch, resending, received, excused, alertFaults>>
Monitor(event) ==
  /\ late.holds /\ ~late.told /\ late' = [late EXCEPT !.told = TRUE]
  /\ \/ Add(Queued(event, "pending")) /\ UNCHANGED alertFaults
     \/ /\ alertFaults < MaxAlertFaults /\ alertFaults' = alertFaults + 1
        /\ UNCHANGED <<notif, received, excused>>
  /\ UNCHANGED <<channel, emitting, batch, resending, channelRequests>>
Forget ==
  /\ late.told /\ ~late.holds /\ late' = [late EXCEPT !.told = FALSE]
  /\ UNCHANGED <<channel, notif, emitting, batch, resending, received, excused, channelRequests, alertFaults>>

-----------------------------------------------------------------------------
\* mutant: a notification that ran out of attempts stays failed
Outcome_NeverDead(accepted, attempts) == IF accepted THEN "sent" ELSE "failed"
\* send_one, by what the target answered.
Outcome(accepted, attempts) ==
  IF accepted THEN "sent" ELSE IF attempts >= AlertMaxAttempts THEN "dead" ELSE "failed"
Accepted(n, accepted) == received' = [received EXCEPT ![n] = @ + IF accepted THEN 1 ELSE 0]

RetryDue(n) == notif[n].status = "failed" /\ notif[n].attempts < AlertMaxAttempts /\ ~notif[n].cooling
\* dispatch_pending: the oldest candidates, and the first of those that are due.
Oldest(k, ids) == {n \in ids : Cardinality({m \in ids : m < n}) < k}
Candidates == Oldest(AlertWindow, {n \in Notifs : notif[n].status \in Alerted})
ToSend == Oldest(AlertBatch, {n \in Candidates : notif[n].status = "pending" \/ RetryDue(n)})

\* What the dispatcher has not sent yet, and what it has.
Unsent == {n \in DOMAIN batch.row : batch.row[n].status = "unsent"}
Sent == DOMAIN batch.row \ Unsent

Collect ==
  /\ ~batch.open /\ ToSend # {}
  /\ batch' = [row |-> [n \in ToSend |-> [status |-> "unsent", attempts |-> notif[n].attempts]],
               known |-> {c \in Channel : ~channel[c].gone}, open |-> TRUE]
  /\ UNCHANGED <<channel, notif, emitting, resending, late, received, excused, channelRequests, alertFaults>>

\* One notification, the oldest: its channel as it was read, and the attempts too.
Deliver ==
  /\ \E n \in Unsent, accepted \in BOOLEAN :
       LET reached == notif[n].channel \in batch.known
           attempts == batch.row[n].attempts + IF reached THEN 1 ELSE 0
       IN /\ \A m \in Unsent : n <= m
          /\ accepted => reached
          /\ batch' = [batch EXCEPT !.row[n] =
               [status |-> IF reached THEN Outcome(accepted, attempts) ELSE "dead", attempts |-> attempts]]
          /\ Accepted(n, accepted)
  /\ UNCHANGED <<channel, notif, emitting, resending, late, excused, channelRequests, alertFaults>>

\* mutant: the outcomes of the batch are not committed
Written_Nothing(row) == notif
Written(row) ==
  [n \in Notifs |->
     IF n \in DOMAIN row
     THEN [notif[n] EXCEPT !.status = row[n].status, !.attempts = row[n].attempts, !.cooling = TRUE]
     ELSE notif[n]]
DispatchCommits ==
  /\ batch.open /\ Unsent = {}
  /\ notif' = Written(batch.row) /\ batch' = NoBatch
  /\ UNCHANGED <<channel, emitting, resending, late, received, excused, channelRequests, alertFaults>>
\* The worker stops, or the commit fails: everything that was sent is forgotten.
DispatchIsLost ==
  /\ batch.open /\ alertFaults < MaxAlertFaults /\ alertFaults' = alertFaults + 1
  /\ excused' = [n \in Notifs |-> excused[n] + IF n \in Sent THEN 1 ELSE 0]
  /\ batch' = NoBatch
  /\ UNCHANGED <<channel, notif, emitting, resending, late, received, channelRequests>>

\* Time passes: every backoff, and perhaps every deduplication window, is over.
Wait(long) ==
  /\ notif' = [n \in Notifs |-> [notif[n] EXCEPT !.cooling = FALSE, !.recent = @ /\ ~long]]
  /\ notif' # notif
  /\ UNCHANGED <<channel, emitting, batch, resending, late, received, excused, channelRequests, alertFaults>>

-----------------------------------------------------------------------------
ChannelRequest == channelRequests < MaxChannelRequests /\ channelRequests' = channelRequests + 1

\* resend, of a notification of any status: sent, and committed later.
Resend(n) ==
  /\ ChannelRequest /\ resending.id = 0
  /\ notif[n].status \notin {"hidden", "rolled back"} /\ ~channel[notif[n].channel].gone
  /\ \E accepted \in BOOLEAN :
       /\ resending' = [id |-> n, outcome |-> Outcome(accepted, notif[n].attempts + 1),
                        attempts |-> notif[n].attempts + 1]
       /\ Accepted(n, accepted)
  /\ excused' = [excused EXCEPT ![n] = @ + 1]
  /\ UNCHANGED <<channel, notif, emitting, batch, late, alertFaults>>
ResendCommits ==
  /\ resending.id # 0 /\ resending' = NoResend
  /\ notif' = [notif EXCEPT ![resending.id].status = resending.outcome, ![resending.id].cooling = TRUE,
                            ![resending.id].attempts = resending.attempts]
  /\ UNCHANGED <<channel, emitting, batch, late, received, excused, channelRequests, alertFaults>>

\* create_channel, update_channel, delete_channel
ChangeChannel(c) ==
  /\ ChannelRequest
  /\ ~channel[c].gone
  /\ \/ channel' = [channel EXCEPT ![c].on = ~@]
     \/ \E min \in {1, 2}, e \in DOMAIN Event : channel' = [channel EXCEPT ![c].min = min, ![c].events = {e}]
     \/ channel' = [channel EXCEPT ![c].gone = TRUE]
  /\ UNCHANGED <<notif, emitting, batch, resending, late, received, excused, alertFaults>>

\* test_channel: a notification of its own, sent and committed by the request.
TestChannel(c) ==
  /\ ChannelRequest /\ ~channel[c].gone /\ Len(notif) < MaxNotifs
  /\ \E accepted \in BOOLEAN :
       /\ notif' = Append(notif, [channel |-> c, event |-> "TEST", status |-> Outcome(accepted, 1),
                                  attempts |-> 1, cooling |-> TRUE, recent |-> TRUE])
       /\ received' = Append(received, IF accepted THEN 1 ELSE 0)
  /\ excused' = Append(excused, 0)
  /\ UNCHANGED <<channel, emitting, batch, resending, late, alertFaults>>

Dispatch == Collect \/ Deliver \/ DispatchCommits
AlertNext ==
  \/ \E p \in Emitter : (\E e \in DOMAIN Event : Emit(p, e)) \/ EmitCommits(p) \/ EmitRollsBack(p)
  \/ Condition \/ Forget \/ \E e \in DOMAIN Event : Monitor(e)
  \/ Dispatch \/ DispatchIsLost \/ ResendCommits
  \/ \E long \in BOOLEAN : Wait(long)
  \/ \E n \in Notifs : Resend(n)
  \/ \E c \in Channel : ChangeChannel(c) \/ TestChannel(c)

AlertFairness ==
  /\ WF_alertVars(Dispatch) /\ WF_alertVars(ResendCommits)
  /\ WF_alertVars(Wait(FALSE))
AlertSpec == AlertInit /\ [][AlertNext]_alertVars

-----------------------------------------------------------------------------
AlertStatus == Alerted \union AlertEnds \union {"hidden", "rolled back"}
AlertRow == [channel : Channel, event : DOMAIN Event \union {"TEST"}, status : AlertStatus,
             attempts : Nat, cooling : BOOLEAN, recent : BOOLEAN]
Outcomes == [status : Alerted \union AlertEnds \union {"unsent"}, attempts : Nat]

AlertTypeOK ==
  /\ notif \in Seq(AlertRow) /\ received \in Seq(Nat) /\ excused \in Seq(Nat)
  /\ Len(notif) <= MaxNotifs /\ Len(received) = Len(notif) /\ Len(excused) = Len(notif)
  /\ emitting \in [Emitter -> SUBSET Notifs]
  /\ batch \in [row : {batch.row}, known : SUBSET Channel, open : BOOLEAN]
  /\ DOMAIN batch.row \subseteq Notifs /\ batch.row \in [DOMAIN batch.row -> Outcomes]
  /\ resending = NoResend
     \/ resending \in [id : Notifs, outcome : Alerted \union AlertEnds, attempts : Nat]

\* A target gets a notification again only if somebody resent it or the dispatch that had
\* sent it was lost, as many times.
RepeatedOnlyByAccident == \A n \in Notifs : received[n] <= 1 + excused[n]

\* A committed notification is sent or given up in the end, whatever the targets answer,
\* whatever dispatch is lost and however many stand before it.
AlertsSettle ==
  \A n \in 1..MaxNotifs :
    (n \in Notifs /\ notif[n].status \in Alerted) ~> (n \in Notifs /\ notif[n].status \in AlertEnds)
=============================================================================
