-------------------------------- MODULE Outbox --------------------------------
(***************************************************************************)
(* The transactional outbox towards t2c_data (features/integration):       *)
(* producers insert events in their own transactions, the publisher of the *)
(* worker that orchestrates (OrchestrationLock: one at a time) delivers    *)
(* them with retries and backoff, and administrators reschedule them.      *)
(*                                                                         *)
(* A session reads its rows again after each commit (expire_on_commit) and *)
(* writes them by primary key, whatever they hold by then.  An event is    *)
(* known by the number of its row: every builder gives its event a key,    *)
(* and the unique index on idempotency_key gives each key one row.         *)
(***************************************************************************)
EXTENDS Integers, FiniteSets

CONSTANTS
  Attempts,       \* _DEFAULT_MAX_ATTEMPTS
  BatchLimit,     \* the limit of publish_pending
  MaxEvents,      \* bound: events enqueued
  MaxRetries,     \* bound: requests to reschedule
  MaxInterrupts   \* bound: publishers that die or lose the database

Event == 1..MaxEvents

ASSUME OutboxAssumption ==
  /\ Attempts \in Nat \ {0} /\ BatchLimit \in Nat \ {0}
  /\ MaxEvents \in Nat /\ MaxRetries \in Nat /\ MaxInterrupts \in Nat

VARIABLES
  \* the table
  status,        \* "absent" before the row is inserted
  attempts, maxAttempts,
  due,           \* next_attempt_at is NULL or past
  last,          \* the last row inserted
  sink,          \* the rows of t2c_data.ingest_events for each event
  \* the publisher
  pc, todo,      \* where it is, and the rows of its batch not yet marked
  current,       \* the row it delivers (0: none)
  limit,         \* and the attempts it read that this row is allowed
  \* the administrator's request being served: the rows it read, with what it
  \* assigns to max_attempts, and those whose status it changes
  request, repend,
  \* bounds
  retries, interrupts

rowVars == <<status, attempts, maxAttempts, due, last, sink>>
publisherVars == <<pc, todo, current, limit>>
requestVars == <<request, repend>>
vars == <<rowVars, publisherVars, requestVars, retries, interrupts>>

Status == {"absent", "pending", "processing", "sent", "failed", "dead"}

TypeOK ==
  /\ status \in [Event -> Status]
  /\ attempts \in [Event -> Nat] /\ maxAttempts \in [Event -> Nat]
  /\ due \in [Event -> BOOLEAN]
  /\ last \in 0..MaxEvents /\ \A k \in Event : status[k] = "absent" <=> k > last
  /\ sink \in [Event -> Nat]
  /\ pc \in {"idle", "batch", "deliver", "sent"}
  /\ todo \in SUBSET (1..last)
  /\ current \in 0..last /\ (pc \in {"deliver", "sent"} <=> current # 0)
  /\ limit \in Nat
  /\ DOMAIN request \in SUBSET (1..last) /\ \A k \in DOMAIN request : request[k] \in Nat
  /\ repend \in SUBSET DOMAIN request
  /\ retries \in 0..MaxRetries /\ interrupts \in 0..MaxInterrupts

NoRequest == [k \in {} |-> 0]

Init ==
  /\ status = [k \in Event |-> "absent"]
  /\ attempts = [k \in Event |-> 0]
  /\ maxAttempts = [k \in Event |-> Attempts]
  /\ due = [k \in Event |-> TRUE]
  /\ last = 0
  /\ sink = [k \in Event |-> 0]
  /\ pc = "idle" /\ todo = {} /\ current = 0 /\ limit = 0
  /\ request = NoRequest /\ repend = {}
  /\ retries = 0 /\ interrupts = 0

-----------------------------------------------------------------------------
\* enqueue, with the commit of the producer; an event that has a row is ignored.
Enqueue ==
  /\ last < MaxEvents
  /\ last' = last + 1
  /\ status' = [status EXCEPT ![last + 1] = "pending"]
  /\ UNCHANGED <<attempts, maxAttempts, due, sink, publisherVars, requestVars,
                 retries, interrupts>>

\* The backoff of a row is over.
BackoffPasses(k) ==
  /\ ~due[k]
  /\ due' = [due EXCEPT ![k] = TRUE]
  /\ UNCHANGED <<status, attempts, maxAttempts, last, sink, publisherVars, requestVars,
                 retries, interrupts>>

-----------------------------------------------------------------------------
(* publish_pending *)

\* mutant: the number of attempts is not looked at
Publishable_NoLimit(k) == status[k] \in {"pending", "failed"} /\ due[k]
\* mutant: a failed row is never looked at again
Publishable_PendingOnly(k) == status[k] = "pending" /\ attempts[k] < maxAttempts[k] /\ due[k]
Publishable(k) ==
  status[k] \in {"pending", "failed"} /\ attempts[k] < maxAttempts[k] /\ due[k]

\* The oldest rows that are due, up to the limit.
Batch ==
  {k \in Event :
     Publishable(k) /\ Cardinality({j \in 1..(k - 1) : Publishable(j)}) < BatchLimit}

Select ==
  /\ pc = "idle" /\ Batch # {}
  /\ todo' = Batch
  /\ pc' = "batch"
  /\ UNCHANGED <<rowVars, current, limit, requestVars, retries, interrupts>>

\* A tick with nothing to publish.
NothingDue == pc = "idle" /\ Batch = {} /\ UNCHANGED vars

\* The next row is marked as processing and committed ...
Mark ==
  /\ pc = "batch"
  /\ \E k \in todo :
       /\ \A j \in todo : k <= j
       /\ status' = [status EXCEPT ![k] = "processing"]
       /\ current' = k /\ limit' = maxAttempts[k]
       /\ todo' = todo \ {k}
  /\ pc' = "deliver"
  /\ UNCHANGED <<attempts, maxAttempts, due, last, sink, requestVars, retries, interrupts>>

\* The end of an iteration.
\* mutant: the publisher keeps its row
NextRow_Kept == pc' = (IF todo = {} THEN "idle" ELSE "batch") /\ UNCHANGED <<todo, current, limit>>
NextRow == pc' = (IF todo = {} THEN "idle" ELSE "batch") /\ current' = 0 /\ limit' = 0 /\ UNCHANGED todo

\* mutant: no ON CONFLICT in the sink
Delivered_Plain(n) == n + 1
Delivered(n) == IF n = 0 THEN 1 ELSE n

\* ... then delivered: the insert into the sink and the status are one commit ...
Deliver ==
  /\ pc = "deliver"
  /\ sink' = [sink EXCEPT ![current] = Delivered(@)]
  /\ status' = [status EXCEPT ![current] = "sent"]
  /\ attempts' = [attempts EXCEPT ![current] = @ + 1]
  /\ due' = [due EXCEPT ![current] = TRUE]
  /\ pc' = "sent"
  /\ UNCHANGED <<maxAttempts, last, todo, current, limit, requestVars, retries, interrupts>>

Audited ==
  /\ pc = "sent"
  /\ NextRow
  /\ UNCHANGED <<rowVars, requestVars, retries, interrupts>>

Exhausted_Late(n) == n > limit   \* mutant: one attempt more than allowed
Exhausted(n) == n >= limit
\* ... or not: the attempt is counted, and compared with the limit, from the numbers read before the delivery.
RecordFailure(n) ==
  /\ attempts' = [attempts EXCEPT ![current] = n]
  /\ status' = [status EXCEPT ![current] = IF Exhausted(n) THEN "dead" ELSE "failed"]
  /\ due' = [due EXCEPT ![current] = Exhausted(n)]
  /\ NextRow
  /\ UNCHANGED <<maxAttempts, last, sink, requestVars, retries, interrupts>>

DeliveryFails == pc = "deliver" /\ RecordFailure(attempts[current] + 1)

\* The row, expired by the commit, is read again for the audit inside the same try:
\* an error there records a failure of what was delivered.
ReadBackFails == pc = "sent" /\ RecordFailure(attempts[current])

\* The worker dies, or an error escapes the loop: the row stays as it is.
Interrupt ==
  /\ pc # "idle" /\ interrupts < MaxInterrupts
  /\ interrupts' = interrupts + 1
  /\ pc' = "idle" /\ todo' = {} /\ current' = 0 /\ limit' = 0
  /\ UNCHANGED <<rowVars, requestVars, retries>>

-----------------------------------------------------------------------------
(* Administrators *)

\* retry and retry_dead read their rows ...
ReadRequest(rows, newMax) ==
  /\ DOMAIN request = {} /\ retries < MaxRetries /\ rows # {}
  /\ retries' = retries + 1
  /\ request' = [k \in rows |-> newMax[k]]
  /\ repend' = {k \in rows : status[k] # "pending"}
  /\ UNCHANGED <<rowVars, publisherVars, interrupts>>

Renewed == [k \in Event |-> attempts[k] + Attempts]
Retry(k) ==
  /\ status[k] \notin {"absent", "sent"}
  /\ ReadRequest({k}, [j \in Event |-> IF attempts[j] >= maxAttempts[j] THEN Renewed[j]
                                       ELSE maxAttempts[j]])

RetryDead == ReadRequest({k \in Event : status[k] = "dead"}, Renewed)

\* ... and write what they assigned.
CommitRequest ==
  /\ DOMAIN request # {}
  /\ status' = [k \in Event |-> IF k \in repend THEN "pending" ELSE status[k]]
  /\ due' = [k \in Event |-> due[k] \/ k \in DOMAIN request]
  /\ maxAttempts' = [k \in Event |-> IF k \in DOMAIN request THEN request[k] ELSE maxAttempts[k]]
  /\ request' = NoRequest /\ repend' = {}
  /\ UNCHANGED <<attempts, last, sink, publisherVars, retries, interrupts>>

-----------------------------------------------------------------------------
Publish == Select \/ Mark \/ Deliver \/ Audited \/ DeliveryFails \/ ReadBackFails

Next ==
  \/ Enqueue \/ Publish \/ NothingDue \/ Interrupt
  \/ \E k \in Event : BackoffPasses(k) \/ Retry(k)
  \/ RetryDead \/ CommitRequest

Spec == Init /\ [][Next]_vars

\* Orchestration recurs (OrchestrationLock), and time passes.
Fairness ==
  /\ WF_vars(Publish) /\ WF_vars(CommitRequest)
  /\ \A k \in Event : WF_vars(BackoffPasses(k))
FairSpec == Spec /\ Fairness

-----------------------------------------------------------------------------
(* Properties *)

\* "uma reentrega nunca duplica no t2c_data": whatever is delivered again, by a race
\* with an administrator or by an error after the delivery, t2c_data has it once, and
\* what is marked sent it has.
DeliveredOnce ==
  \A k \in Event : sink[k] <= 1 /\ (status[k] = "sent" => sink[k] = 1)

\* Retries run out: no event is attempted more often than allowed, one that t2c_data
\* does not have is given up exactly when its attempts are used up, and a failed one has
\* some left.  (One that t2c_data has can be dead with attempts left: the audit of its
\* delivery failed while an administrator granted it more.)
AttemptsRunOut ==
  \A k \in Event :
    /\ attempts[k] <= maxAttempts[k]
    /\ status[k] = "dead" /\ sink[k] = 0 => attempts[k] = maxAttempts[k]
    /\ status[k] = "failed" => attempts[k] < maxAttempts[k]

\* What the publisher will not look at again by itself: a row that was left as
\* processing, or one that was made pending with no attempt left.
LeftProcessing(k) == status[k] = "processing" /\ current # k
OutOfAttempts(k) == status[k] = "pending" /\ attempts[k] >= maxAttempts[k]
Stranded(k) == LeftProcessing(k) \/ OutOfAttempts(k)

\* Every event is sent or given up, unless it is stranded, which takes an accident: a
\* publisher that was interrupted, or a request that raced with it.
EventsEnd ==
  \A k \in Event :
    status[k] \in {"pending", "processing", "failed"} ~>
      status[k] \in {"sent", "dead"} \/ (Stranded(k) /\ interrupts + retries > 0)

\* What t2c_data and the administrators see of the events is the promise of Delivery:
\* delivered for good, given up after as many attempts as allowed and no earlier.
EventState ==
  [k \in Event |-> IF sink[k] > 0 THEN "delivered"
                   ELSE IF status[k] \in {"absent", "dead"} THEN status[k] ELSE "waiting"]
AttemptsLeft == [k \in Event |-> IF sink[k] > 0 THEN 0 ELSE maxAttempts[k] - attempts[k]]

Promise == INSTANCE Delivery WITH state <- EventState, left <- AttemptsLeft
ImplementsDelivery == Promise!Spec

\* models/outbox.py: "the worker's publisher delivers it with retry + exponential backoff
\* and marks it sent/dead".  It fails: the row of a publisher that stops after the commit of
\* "processing" is never looked at again.
EventsAreHandled ==
  \A k \in Event : status[k] = "pending" ~> status[k] \in {"sent", "dead"}

=============================================================================
