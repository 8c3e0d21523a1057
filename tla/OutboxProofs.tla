----------------------------- MODULE OutboxProofs -----------------------------
(* Theorems about Outbox, for any number of events, attempts and interruptions. *)
EXTENDS Outbox, TLAPS

-----------------------------------------------------------------------------
(* The types *)

\* The end of an iteration leaves the publisher without a row.
LEMMA NextRowTypes ==
  ASSUME TypeOK, NextRow, last' = last
  PROVE  /\ pc' \in {"idle", "batch"} /\ todo' \in SUBSET (1..last')
         /\ current' = 0 /\ current' \in 0..last' /\ limit' \in Nat
BY OutboxAssumption DEF TypeOK, NextRow

\* Recording a failure keeps the types.
LEMMA RecordFailureTypes ==
  ASSUME TypeOK, pc \in {"deliver", "sent"}, NEW n \in Nat, RecordFailure(n)
  PROVE  TypeOK'
<1> USE OutboxAssumption DEF TypeOK
<1>1. UNCHANGED <<maxAttempts, last, sink, request, repend, retries, interrupts>>
  BY DEF RecordFailure, requestVars
<1>2. /\ pc' \in {"idle", "batch"} /\ todo' \in SUBSET (1..last')
      /\ current' = 0 /\ current' \in 0..last' /\ limit' \in Nat
  BY <1>1, NextRowTypes DEF RecordFailure
<1>3. current \in 1..last /\ current \in Event
  BY DEF Event
<1>4. Exhausted(n) \in BOOLEAN
  BY DEF Exhausted
<1>5. /\ attempts' \in [Event -> Nat] /\ due' \in [Event -> BOOLEAN]
      /\ status' \in [Event -> Status]
  BY <1>3, <1>4 DEF RecordFailure, Status
<1>6. \A k \in Event : status'[k] = "absent" <=> k > last'
  BY <1>1, <1>3 DEF RecordFailure
<1> QED
  BY <1>1, <1>2, <1>5, <1>6

\* Reading the rows of a request keeps the types.
LEMMA ReadRequestTypes ==
  ASSUME TypeOK, NEW rows \in SUBSET (1..last), NEW newMax \in [Event -> Nat],
         ReadRequest(rows, newMax)
  PROVE  TypeOK'
<1> USE OutboxAssumption DEF TypeOK
<1>1. UNCHANGED <<status, attempts, maxAttempts, due, last, sink, pc, todo, current, limit, interrupts>>
  BY DEF ReadRequest, rowVars, publisherVars
<1>2. DOMAIN request' \in SUBSET (1..last') /\ \A k \in DOMAIN request' : request'[k] \in Nat
  BY <1>1 DEF ReadRequest, Event
<1>3. repend' \in SUBSET DOMAIN request'
  BY DEF ReadRequest
<1>4. retries' \in 0..MaxRetries
  BY DEF ReadRequest
<1> QED
  BY <1>1, <1>2, <1>3, <1>4

\* Every variable keeps its type: in particular the publisher has a row exactly while it
\* delivers one, and nothing refers to a row that was not inserted.
THEOREM Types == Spec => []TypeOK
<1> USE OutboxAssumption
<1>1. Init => TypeOK
  BY DEF Init, TypeOK, Status, Event, NoRequest
<1>2. TypeOK /\ [Next]_vars => TypeOK'
  <2> SUFFICES ASSUME TypeOK, [Next]_vars PROVE TypeOK'
    OBVIOUS
  <2>1. CASE Enqueue
    <3>1. last + 1 \in Event /\ last + 1 \in Nat
      BY <2>1 DEF Enqueue, Event, TypeOK
    <3> QED
      BY <2>1, <3>1 DEF Enqueue, TypeOK, Status, publisherVars, requestVars, Event
  <2>2. ASSUME NEW k \in Event, BackoffPasses(k) PROVE TypeOK'
    BY <2>2 DEF BackoffPasses, TypeOK, publisherVars, requestVars
  <2>3. CASE Select
    <3>1. Batch \in SUBSET (1..last)
      BY DEF Batch, Publishable, TypeOK, Event
    <3> QED
      BY <2>3, <3>1 DEF Select, TypeOK, rowVars, requestVars
  <2>4. CASE Mark
    <3>1. PICK k \in todo : /\ status' = [status EXCEPT ![k] = "processing"]
                            /\ current' = k /\ todo' = todo \ {k} /\ limit' = maxAttempts[k]
      BY <2>4 DEF Mark
    <3>2. k \in Event /\ k \in 1..last
      BY <3>1 DEF TypeOK, Event
    <3>3. UNCHANGED <<attempts, maxAttempts, due, last, sink, request, repend, retries, interrupts>>
      BY <2>4 DEF Mark, requestVars
    <3>4. pc' = "deliver" /\ current' \in 0..last' /\ current' # 0 /\ todo' \in SUBSET (1..last') /\ limit' \in Nat
      BY <2>4, <3>1, <3>2, <3>3 DEF Mark, TypeOK
    <3>5. status' \in [Event -> Status] /\ \A j \in Event : status'[j] = "absent" <=> j > last'
      BY <3>1, <3>2, <3>3 DEF TypeOK, Status
    <3> QED
      BY <3>3, <3>4, <3>5 DEF TypeOK
  <2>5. CASE Deliver
    <3>1. current \in 1..last /\ current \in Event
      BY <2>5 DEF Deliver, TypeOK, Event
    <3>2. /\ sink' \in [Event -> Nat] /\ status' \in [Event -> Status]
          /\ attempts' \in [Event -> Nat] /\ due' \in [Event -> BOOLEAN]
      BY <2>5, <3>1 DEF Deliver, Delivered, TypeOK, Status
    <3>3. UNCHANGED <<maxAttempts, last, todo, current, limit, request, repend, retries, interrupts>>
      BY <2>5 DEF Deliver, requestVars
    <3>4. \A j \in Event : status'[j] = "absent" <=> j > last'
      BY <2>5, <3>1, <3>3 DEF Deliver, TypeOK
    <3> QED
      BY <2>5, <3>2, <3>3, <3>4 DEF Deliver, TypeOK
  <2>6. CASE Audited
    <3>1. UNCHANGED <<status, attempts, maxAttempts, due, last, sink, request, repend,
                      retries, interrupts>>
      BY <2>6 DEF Audited, rowVars, requestVars
    <3> QED
      BY <2>6, <3>1, NextRowTypes DEF Audited, TypeOK
  <2>7. CASE DeliveryFails
    <3>1. attempts[current] + 1 \in Nat
      BY <2>7 DEF DeliveryFails, TypeOK, Event
    <3> QED
      BY <2>7, <3>1, RecordFailureTypes DEF DeliveryFails
  <2>8. CASE ReadBackFails
    <3>1. attempts[current] \in Nat
      BY <2>8 DEF ReadBackFails, TypeOK, Event
    <3> QED
      BY <2>8, <3>1, RecordFailureTypes DEF ReadBackFails
  <2>9. CASE NothingDue
    BY <2>9 DEF NothingDue, TypeOK, vars, rowVars, publisherVars, requestVars
  <2>10. CASE Interrupt
    BY <2>10 DEF Interrupt, TypeOK, rowVars, requestVars
  <2>11. ASSUME NEW k \in Event, Retry(k) PROVE TypeOK'
    <3>1. {k} \in SUBSET (1..last)
      BY <2>11 DEF Retry, TypeOK, Event
    <3>2. [j \in Event |-> IF attempts[j] >= maxAttempts[j] THEN Renewed[j]
                           ELSE maxAttempts[j]] \in [Event -> Nat]
      BY DEF Renewed, TypeOK
    <3> QED
      BY <2>11, <3>1, <3>2, ReadRequestTypes DEF Retry
  <2>12. CASE RetryDead
    <3>1. {k \in Event : status[k] = "dead"} \in SUBSET (1..last)
      BY DEF TypeOK, Event
    <3>2. Renewed \in [Event -> Nat]
      BY DEF Renewed, TypeOK
    <3> QED
      BY <2>12, <3>1, <3>2, ReadRequestTypes DEF RetryDead
  <2>13. CASE CommitRequest
    <3>1. UNCHANGED <<attempts, last, sink, pc, todo, current, limit, retries, interrupts>>
      BY <2>13 DEF CommitRequest, publisherVars
    <3>2. DOMAIN request' = {} /\ repend' = {}
      BY <2>13 DEF CommitRequest, NoRequest
    <3>3. status' \in [Event -> Status] /\ \A j \in Event : status'[j] = "absent" <=> j > last'
      BY <2>13, <3>1 DEF CommitRequest, TypeOK, Status
    <3>4. maxAttempts' \in [Event -> Nat] /\ due' \in [Event -> BOOLEAN]
      BY <2>13 DEF CommitRequest, TypeOK
    <3> QED
      BY <3>1, <3>2, <3>3, <3>4 DEF TypeOK
  <2>14. CASE UNCHANGED vars
    BY <2>14 DEF TypeOK, vars, rowVars, publisherVars, requestVars
  <2> QED
    BY <2>1, <2>2, <2>3, <2>4, <2>5, <2>6, <2>7, <2>8, <2>9, <2>10, <2>11, <2>12, <2>13, <2>14
    DEF Next, Publish
<1> QED
  BY <1>1, <1>2, PTL DEF Spec

-----------------------------------------------------------------------------
(* Delivery *)

\* However often a row is delivered again, by a request that raced with the publisher or
\* by an error after the delivery, t2c_data holds the event once, and it holds every event
\* that is marked sent.
THEOREM DeliversOnce == Spec => []DeliveredOnce
<1> USE OutboxAssumption
<1>1. Init => DeliveredOnce
  BY DEF Init, DeliveredOnce
<1>2. TypeOK /\ DeliveredOnce /\ [Next]_vars => DeliveredOnce'
  <2> SUFFICES ASSUME TypeOK, DeliveredOnce, [Next]_vars PROVE DeliveredOnce'
    OBVIOUS
  <2>1. CASE Enqueue
    BY <2>1 DEF Enqueue, TypeOK, DeliveredOnce
  <2>2. CASE Mark
    BY <2>2 DEF Mark, TypeOK, DeliveredOnce
  <2>3. CASE Deliver
    <3>1. current \in Event
      BY <2>3 DEF Deliver, TypeOK, Event
    <3>2. \A k \in Event : /\ sink'[k] = IF k = current THEN Delivered(sink[k]) ELSE sink[k]
                           /\ status'[k] = IF k = current THEN "sent" ELSE status[k]
      BY <2>3 DEF Deliver, TypeOK
    <3>3. sink[current] \in {0, 1} /\ Delivered(sink[current]) = 1
      BY <3>1 DEF Delivered, DeliveredOnce, TypeOK
    <3> QED
      BY <3>2, <3>3 DEF DeliveredOnce
  <2>4. ASSUME NEW n, RecordFailure(n) PROVE DeliveredOnce'
    BY <2>4 DEF RecordFailure, TypeOK, DeliveredOnce
  <2>5. CASE CommitRequest
    BY <2>5 DEF CommitRequest, TypeOK, DeliveredOnce
  <2>6. CASE UNCHANGED <<status, sink>>
    BY <2>6 DEF DeliveredOnce
  <2>7. ASSUME NEW k \in Event, BackoffPasses(k) \/ Retry(k) PROVE UNCHANGED <<status, sink>>
    BY <2>7 DEF BackoffPasses, Retry, ReadRequest, rowVars
  <2>8. CASE Select \/ Audited \/ NothingDue \/ Interrupt \/ RetryDead \/ UNCHANGED vars
    <3>1. UNCHANGED <<status, sink>>
      BY <2>8 DEF Select, Audited, NothingDue, Interrupt, RetryDead, ReadRequest, vars, rowVars
    <3> QED
      BY <2>6, <3>1
  <2> QED
    BY <2>1, <2>2, <2>3, <2>4, <2>5, <2>6, <2>7, <2>8
    DEF Next, Publish, DeliveryFails, ReadBackFails
<1> QED
  BY <1>1, <1>2, Types, PTL DEF Spec

-----------------------------------------------------------------------------
(* Attempts *)

\* What an undelivered event was granted by the request being served: nothing, or as
\* many attempts as it had at first when it had none left; and then nobody but the
\* request writes its row.
Granted(k) ==
  request[k] # maxAttempts[k] /\ sink[k] = 0 =>
    /\ request[k] = attempts[k] + Attempts
    /\ attempts[k] = maxAttempts[k]
    /\ k \in repend \/ status[k] = "pending"

RequestInv ==
  \A k \in DOMAIN request :
    /\ maxAttempts[k] <= request[k] /\ request[k] <= attempts[k] + Attempts
    /\ Granted(k)

\* What the publisher is about to attempt has attempts left, and it does not meet a row
\* twice in a batch.  Nobody grants more attempts to what it delivers for the first time.
PublisherInv ==
  /\ \A k \in todo : attempts[k] < maxAttempts[k] /\ k # current
  /\ pc = "deliver" => attempts[current] < maxAttempts[current]
  /\ pc = "sent" => sink[current] > 0
  /\ pc \in {"deliver", "sent"} =>
       limit <= maxAttempts[current] /\ (sink[current] = 0 => limit = maxAttempts[current])

AttemptsInv ==
  /\ AttemptsRunOut
  /\ \A k \in Event : maxAttempts[k] <= attempts[k] + Attempts
  /\ RequestInv
  /\ PublisherInv

\* Recording a failure: of an attempt, or of what was delivered.
LEMMA RecordFailureAttempts ==
  ASSUME TypeOK, AttemptsInv, pc \in {"deliver", "sent"}, NEW n \in Nat, RecordFailure(n),
         \/ pc = "deliver" /\ n = attempts[current] + 1
         \/ pc = "sent" /\ n = attempts[current]
  PROVE  AttemptsInv'
<1>1. UNCHANGED <<maxAttempts, last, sink, request, repend, retries, interrupts, todo>>
  BY DEF RecordFailure, requestVars, NextRow
<1>2. current \in Event
  BY OutboxAssumption DEF TypeOK, Event
<1>3. \A k \in Event : attempts[k] \in Nat /\ maxAttempts[k] \in Nat /\ sink[k] \in Nat
  BY DEF TypeOK
<1>4. /\ n <= maxAttempts[current] /\ attempts[current] <= n
      /\ limit <= maxAttempts[current] /\ (sink[current] = 0 => limit = maxAttempts[current])
  BY <1>2, <1>3 DEF AttemptsInv, AttemptsRunOut, PublisherInv
<1>5. \A k \in Event :
        /\ attempts'[k] = IF k = current THEN n ELSE attempts[k]
        /\ status'[k] = IF k # current THEN status[k]
                        ELSE IF n >= limit THEN "dead" ELSE "failed"
  BY DEF RecordFailure, Exhausted, TypeOK
<1>6. \A k \in Event : attempts[k] <= attempts'[k] /\ attempts'[k] \in Nat
  BY <1>2, <1>3, <1>4, <1>5
<1>7. Attempts \in Nat /\ DOMAIN request \subseteq Event /\ todo \subseteq Event
  BY OutboxAssumption DEF TypeOK, Event
<1>8. AttemptsRunOut'
  <2> SUFFICES ASSUME NEW k \in Event
               PROVE  /\ attempts'[k] <= maxAttempts[k]
                      /\ status'[k] = "dead" /\ sink[k] = 0 => attempts'[k] = maxAttempts[k]
                      /\ status'[k] = "failed" => attempts'[k] < maxAttempts[k]
    BY <1>1 DEF AttemptsRunOut
  <2>1. CASE k = current
    BY <2>1, <1>3, <1>4, <1>5 DEF TypeOK
  <2>2. CASE k # current
    BY <2>2, <1>5 DEF AttemptsInv, AttemptsRunOut
  <2> QED
    BY <2>1, <2>2
<1>9. \A k \in Event : maxAttempts'[k] <= attempts'[k] + Attempts
  <2> SUFFICES ASSUME NEW k \in Event PROVE maxAttempts[k] <= attempts'[k] + Attempts
    BY <1>1
  <2>1. maxAttempts[k] <= attempts[k] + Attempts
    BY DEF AttemptsInv
  <2> QED
    BY <2>1, <1>3, <1>6, <1>7
<1>10. PublisherInv'
  <2>1. pc' \in {"idle", "batch"} /\ current' = 0 /\ current' \notin Event
    BY DEF RecordFailure, NextRow, Event
  <2>2. \A k \in todo : attempts'[k] = attempts[k]
    BY <1>5, <1>7 DEF AttemptsInv, PublisherInv
  <2> QED
    BY <1>1, <1>7, <2>1, <2>2 DEF AttemptsInv, PublisherInv
<1>11. RequestInv'
  <2> SUFFICES ASSUME NEW k \in DOMAIN request
               PROVE  /\ maxAttempts[k] <= request[k] /\ request[k] <= attempts'[k] + Attempts
                      /\ Granted(k)'
    BY <1>1 DEF RequestInv
  <2>1. k \in Event /\ request[k] \in Nat
    BY <1>7 DEF TypeOK
  <2>2. maxAttempts[k] <= request[k] /\ request[k] <= attempts[k] + Attempts /\ Granted(k)
    BY DEF AttemptsInv, RequestInv
  <2>3. request[k] <= attempts'[k] + Attempts
    BY <1>3, <1>6, <1>7, <2>1, <2>2
  <2>4. Granted(k)'
    <3>1. CASE k = current
      <4>1. ~(request[k] # maxAttempts[k] /\ sink[k] = 0)
        BY <3>1, <1>3, <2>1, <2>2 DEF Granted, PublisherInv, AttemptsInv
      <4> QED
        BY <4>1, <1>1 DEF Granted
    <3>2. CASE k # current
      BY <3>2, <1>1, <1>5, <2>1, <2>2 DEF Granted
    <3> QED
      BY <3>1, <3>2
  <2> QED
    BY <2>2, <2>3, <2>4
<1> QED
  BY <1>8, <1>9, <1>10, <1>11 DEF AttemptsInv

\* Reading the rows of a request.
LEMMA ReadRequestAttempts ==
  ASSUME TypeOK, AttemptsInv, NEW rows \in SUBSET (1..last), NEW newMax \in [Event -> Nat],
         ReadRequest(rows, newMax),
         \A k \in rows :
           \/ newMax[k] = maxAttempts[k]
           \/ /\ newMax[k] = attempts[k] + Attempts
              /\ status[k] = "dead" \/ attempts[k] >= maxAttempts[k]
  PROVE  AttemptsInv'
<1>1. UNCHANGED <<status, attempts, maxAttempts, due, last, sink, pc, todo, current, limit, interrupts>>
  BY DEF ReadRequest, rowVars, publisherVars
<1>2. DOMAIN request' = rows /\ \A k \in rows : request'[k] = newMax[k]
  BY DEF ReadRequest
<1>3. repend' = {k \in rows : status[k] # "pending"}
  BY DEF ReadRequest
<1>4. rows \subseteq Event /\ Attempts \in Nat
  BY OutboxAssumption DEF TypeOK, Event
<1>5. \A k \in Event : attempts[k] <= maxAttempts[k] /\ maxAttempts[k] <= attempts[k] + Attempts
                      /\ (status[k] = "dead" /\ sink[k] = 0 => attempts[k] = maxAttempts[k])
  BY DEF AttemptsInv, AttemptsRunOut
<1>6. RequestInv'
  <2> SUFFICES ASSUME NEW k \in rows
               PROVE  /\ maxAttempts[k] <= newMax[k] /\ newMax[k] <= attempts[k] + Attempts
                      /\ newMax[k] # maxAttempts[k] /\ sink[k] = 0 =>
                           /\ newMax[k] = attempts[k] + Attempts
                           /\ attempts[k] = maxAttempts[k]
                           /\ k \in repend' \/ status[k] = "pending"
    BY <1>1, <1>2 DEF RequestInv, Granted
  <2>1. attempts[k] \in Nat /\ maxAttempts[k] \in Nat /\ newMax[k] \in Nat /\ k \in Event
    BY <1>4 DEF TypeOK
  <2>2. newMax[k] = maxAttempts[k] \/ newMax[k] = attempts[k] + Attempts
    OBVIOUS
  <2>3. maxAttempts[k] <= newMax[k] /\ newMax[k] <= attempts[k] + Attempts
    BY <1>4, <1>5, <2>1, <2>2
  <2>4. ASSUME newMax[k] # maxAttempts[k], sink[k] = 0
        PROVE  newMax[k] = attempts[k] + Attempts /\ attempts[k] = maxAttempts[k]
    <3>1. status[k] = "dead" \/ attempts[k] >= maxAttempts[k]
      BY <2>4
    <3> QED
      BY <1>5, <2>1, <2>2, <2>4, <3>1
  <2>5. k \in repend' \/ status[k] = "pending"
    BY <1>3
  <2> QED
    BY <2>3, <2>4, <2>5
<1>7. AttemptsRunOut' /\ PublisherInv' /\ \A k \in Event : maxAttempts'[k] <= attempts'[k] + Attempts
  BY <1>1 DEF AttemptsInv, AttemptsRunOut, PublisherInv
<1> QED
  BY <1>6, <1>7 DEF AttemptsInv

\* Every step keeps what the publisher, the requests and the rows know of the attempts.
LEMMA AttemptsStep == TypeOK /\ AttemptsInv /\ [Next]_vars => AttemptsInv'
<1> SUFFICES ASSUME TypeOK, AttemptsInv, [Next]_vars PROVE AttemptsInv'
  OBVIOUS
<1> DEFINE Same == UNCHANGED <<status, attempts, maxAttempts, sink, pc, todo, current, limit,
                               request, repend>>
<1>1. Same => AttemptsInv'
  BY DEF AttemptsInv, AttemptsRunOut, RequestInv, Granted, PublisherInv
<1>2. \A k \in Event : attempts[k] \in Nat /\ maxAttempts[k] \in Nat /\ sink[k] \in Nat
  BY DEF TypeOK
<1>3. /\ Attempts \in Nat \ {0} /\ 0 \notin Event
      /\ DOMAIN request \subseteq Event /\ todo \subseteq Event
      /\ DOMAIN request \subseteq 1..last /\ 1..last \subseteq Event
  BY OutboxAssumption DEF TypeOK, Event
<1>4. CASE Enqueue
  <2>1. UNCHANGED <<attempts, maxAttempts, sink, pc, todo, current, limit, request, repend>>
    BY <1>4 DEF Enqueue, publisherVars, requestVars
  <2>2. \A k \in Event : status'[k] = IF k = last + 1 THEN "pending" ELSE status[k]
    BY <1>4 DEF Enqueue, TypeOK
  <2>3. AttemptsRunOut'
    BY <2>1, <2>2 DEF AttemptsInv, AttemptsRunOut
  <2>4. RequestInv'
    BY <2>1, <2>2, <1>3 DEF AttemptsInv, RequestInv, Granted
  <2> QED
    BY <2>1, <2>3, <2>4 DEF AttemptsInv, PublisherInv
<1>5. ASSUME NEW k \in Event, BackoffPasses(k) PROVE AttemptsInv'
  BY <1>1, <1>5 DEF BackoffPasses, publisherVars, requestVars
<1>6. CASE Select
  <2>1. UNCHANGED <<status, attempts, maxAttempts, sink, current, limit, request, repend>>
    BY <1>6 DEF Select, rowVars, requestVars
  <2>2. \A k \in todo' : k \in Event /\ attempts[k] < maxAttempts[k]
    BY <1>6 DEF Select, Batch, Publishable
  <2>3. current = 0 /\ pc' = "batch"
    BY <1>6 DEF Select, TypeOK
  <2>4. PublisherInv'
    BY <2>1, <2>2, <2>3, <1>3 DEF PublisherInv
  <2> QED
    BY <2>1, <2>4 DEF AttemptsInv, AttemptsRunOut, RequestInv, Granted
<1>7. CASE Mark
  <2>1. PICK k \in todo : /\ status' = [status EXCEPT ![k] = "processing"]
                          /\ current' = k /\ todo' = todo \ {k} /\ limit' = maxAttempts[k]
    BY <1>7 DEF Mark
  <2>2. UNCHANGED <<attempts, maxAttempts, sink, request, repend>> /\ pc' = "deliver"
    BY <1>7 DEF Mark, requestVars
  <2>3. attempts[k] < maxAttempts[k] /\ k \in Event
    BY <1>3 DEF AttemptsInv, PublisherInv
  <2>4. \A j \in Event : status'[j] = IF j = k THEN "processing" ELSE status[j]
    BY <2>1 DEF TypeOK
  <2>5. AttemptsRunOut'
    BY <2>2, <2>4 DEF AttemptsInv, AttemptsRunOut
  <2>6. PublisherInv'
    BY <2>1, <2>2, <2>3, <1>2 DEF AttemptsInv, PublisherInv
  <2>7. \A j \in DOMAIN request : Granted(j)'
    <3> SUFFICES ASSUME NEW j \in DOMAIN request PROVE Granted(j)'
      OBVIOUS
    <3>1. Granted(j) /\ j \in Event
      BY <1>3 DEF AttemptsInv, RequestInv
    <3>2. CASE j = k
      <4>1. ~(request[j] # maxAttempts[j] /\ sink[j] = 0)
        BY <3>1, <3>2, <2>3, <1>2 DEF Granted
      <4> QED
        BY <4>1, <2>2 DEF Granted
    <3>3. CASE j # k
      BY <3>1, <3>3, <2>2, <2>4 DEF Granted
    <3> QED
      BY <3>2, <3>3
  <2>8. RequestInv'
    BY <2>2, <2>7 DEF AttemptsInv, RequestInv
  <2> QED
    BY <2>2, <2>5, <2>6, <2>8 DEF AttemptsInv
<1>8. CASE Deliver
  <2>1. current \in Event /\ attempts[current] < maxAttempts[current]
    BY <1>3, <1>8 DEF Deliver, TypeOK, AttemptsInv, PublisherInv
  <2>2. UNCHANGED <<maxAttempts, todo, current, limit, request, repend>> /\ pc' = "sent"
    BY <1>8 DEF Deliver, requestVars
  <2>3. \A k \in Event :
          /\ status'[k] = IF k = current THEN "sent" ELSE status[k]
          /\ attempts'[k] = IF k = current THEN attempts[k] + 1 ELSE attempts[k]
          /\ sink'[k] = IF k = current THEN Delivered(sink[k]) ELSE sink[k]
    BY <1>8 DEF Deliver, TypeOK
  <2>4. sink'[current] > 0
    BY <1>2, <2>1, <2>3 DEF Delivered
  <2>5. \A k \in Event : attempts'[k] \in Nat /\ attempts[k] <= attempts'[k]
                         /\ attempts'[k] <= maxAttempts[k]
    BY <1>2, <2>1, <2>3 DEF AttemptsInv, AttemptsRunOut
  <2>6. AttemptsRunOut'
    <3> SUFFICES ASSUME NEW k \in Event
                 PROVE  /\ attempts'[k] <= maxAttempts[k]
                        /\ status'[k] = "dead" /\ sink'[k] = 0 => attempts'[k] = maxAttempts[k]
                        /\ status'[k] = "failed" => attempts'[k] < maxAttempts[k]
      BY <2>2 DEF AttemptsRunOut
    <3>1. CASE k = current
      BY <3>1, <2>3, <2>5
    <3>2. CASE k # current
      BY <3>2, <2>3 DEF AttemptsInv, AttemptsRunOut
    <3> QED
      BY <3>1, <3>2
  <2>7. \A k \in Event : maxAttempts[k] <= attempts'[k] + Attempts
    <3> SUFFICES ASSUME NEW k \in Event PROVE maxAttempts[k] <= attempts'[k] + Attempts
      OBVIOUS
    <3>1. maxAttempts[k] <= attempts[k] + Attempts
      BY DEF AttemptsInv
    <3> QED
      BY <3>1, <2>5, <1>2, <1>3
  <2>8. PublisherInv'
    <3>1. \A k \in todo : attempts'[k] < maxAttempts'[k] /\ k # current
      BY <1>3, <2>2, <2>3 DEF AttemptsInv, PublisherInv
    <3>2. limit <= maxAttempts'[current]
      BY <1>8, <2>2 DEF Deliver, AttemptsInv, PublisherInv
    <3>3. sink'[current] # 0
      BY <2>4
    <3> QED
      BY <2>2, <2>4, <3>1, <3>2, <3>3 DEF PublisherInv
  <2>9. RequestInv'
    <3> SUFFICES ASSUME NEW k \in DOMAIN request
                 PROVE  /\ maxAttempts[k] <= request[k] /\ request[k] <= attempts'[k] + Attempts
                        /\ Granted(k)'
      BY <2>2 DEF RequestInv
    <3>1. /\ k \in Event /\ request[k] \in Nat
          /\ maxAttempts[k] <= request[k] /\ request[k] <= attempts[k] + Attempts
          /\ Granted(k)
      BY <1>3 DEF TypeOK, AttemptsInv, RequestInv
    <3>2. request[k] <= attempts'[k] + Attempts
      BY <3>1, <2>5, <1>2, <1>3
    <3>3. CASE k = current
      BY <3>1, <3>2, <3>3, <2>4 DEF Granted
    <3>4. CASE k # current
      BY <3>1, <3>2, <3>4, <2>2, <2>3 DEF Granted
    <3> QED
      BY <3>3, <3>4
  <2> QED
    BY <2>2, <2>6, <2>7, <2>8, <2>9 DEF AttemptsInv
<1>9. CASE Audited
  <2>1. UNCHANGED <<status, attempts, maxAttempts, sink, request, repend, todo>>
    BY <1>9 DEF Audited, NextRow, rowVars, requestVars
  <2>2. pc' \in {"idle", "batch"} /\ current' = 0
    BY <1>9 DEF Audited, NextRow
  <2>3. PublisherInv'
    BY <1>3, <2>1, <2>2 DEF AttemptsInv, PublisherInv
  <2> QED
    BY <2>1, <2>3 DEF AttemptsInv, AttemptsRunOut, RequestInv, Granted
<1>10. CASE DeliveryFails
  <2>1. attempts[current] + 1 \in Nat
    BY <1>10, OutboxAssumption DEF DeliveryFails, TypeOK, Event
  <2> QED
    BY <1>10, <2>1, RecordFailureAttempts DEF DeliveryFails
<1>11. CASE ReadBackFails
  <2>1. attempts[current] \in Nat
    BY <1>11, OutboxAssumption DEF ReadBackFails, TypeOK, Event
  <2> QED
    BY <1>11, <2>1, RecordFailureAttempts DEF ReadBackFails
<1>12. CASE NothingDue
  BY <1>1, <1>12 DEF NothingDue, vars, rowVars, publisherVars, requestVars
<1>13. CASE Interrupt
  <2>1. UNCHANGED <<status, attempts, maxAttempts, sink, request, repend>>
    BY <1>13 DEF Interrupt, rowVars, requestVars
  <2>2. pc' = "idle" /\ todo' = {}
    BY <1>13 DEF Interrupt
  <2> QED
    BY <2>1, <2>2 DEF AttemptsInv, AttemptsRunOut, RequestInv, Granted, PublisherInv
<1>14. ASSUME NEW k \in Event, Retry(k) PROVE AttemptsInv'
  <2> DEFINE newMax == [j \in Event |-> IF attempts[j] >= maxAttempts[j] THEN Renewed[j]
                                        ELSE maxAttempts[j]]
  <2>1. {k} \in SUBSET (1..last)
    BY <1>14 DEF Retry, TypeOK, Event
  <2>2. newMax \in [Event -> Nat]
    BY <1>2, <1>3 DEF Renewed
  <2>3. \/ newMax[k] = maxAttempts[k]
        \/ newMax[k] = attempts[k] + Attempts /\ attempts[k] >= maxAttempts[k]
    BY DEF Renewed
  <2>4. ReadRequest({k}, newMax)
    BY <1>14 DEF Retry
  <2> HIDE DEF newMax
  <2> QED
    BY <2>1, <2>2, <2>3, <2>4, ReadRequestAttempts
<1>15. CASE RetryDead
  <2>1. {k \in Event : status[k] = "dead"} \in SUBSET (1..last)
    BY DEF TypeOK, Event
  <2>2. Renewed \in [Event -> Nat] /\ \A k \in Event : Renewed[k] = attempts[k] + Attempts
    BY <1>2, <1>3 DEF Renewed
  <2> QED
    BY <1>15, <2>1, <2>2, ReadRequestAttempts DEF RetryDead
<1>16. CASE CommitRequest
  <2>1. UNCHANGED <<attempts, sink, pc, todo, current, limit>>
    BY <1>16 DEF CommitRequest, publisherVars
  <2>2. \A k \in Event :
          /\ status'[k] = IF k \in repend THEN "pending" ELSE status[k]
          /\ maxAttempts'[k] = IF k \in DOMAIN request THEN request[k] ELSE maxAttempts[k]
    BY <1>16 DEF CommitRequest
  <2>3. \A k \in DOMAIN request : /\ request[k] \in Nat /\ maxAttempts[k] <= request[k]
                                 /\ request[k] <= attempts[k] + Attempts /\ Granted(k)
    BY DEF TypeOK, AttemptsInv, RequestInv
  <2>4. \A k \in Event : maxAttempts'[k] \in Nat /\ maxAttempts[k] <= maxAttempts'[k]
    BY <1>2, <2>2, <2>3
  <2>5. AttemptsRunOut'
    <3> SUFFICES ASSUME NEW k \in Event
                 PROVE  /\ attempts[k] <= maxAttempts'[k]
                        /\ status'[k] = "dead" /\ sink[k] = 0 => attempts[k] = maxAttempts'[k]
                        /\ status'[k] = "failed" => attempts[k] < maxAttempts'[k]
      BY <2>1 DEF AttemptsRunOut
    <3>1. /\ attempts[k] <= maxAttempts[k]
          /\ status[k] = "dead" /\ sink[k] = 0 => attempts[k] = maxAttempts[k]
          /\ status[k] = "failed" => attempts[k] < maxAttempts[k]
      BY DEF AttemptsInv, AttemptsRunOut
    <3>2. ASSUME status'[k] = "dead", sink[k] = 0 PROVE maxAttempts'[k] = maxAttempts[k]
      BY <3>2, <2>2, <2>3 DEF Granted
    <3>3. attempts[k] <= maxAttempts'[k]
      BY <1>2, <2>4, <3>1
    <3>4. status'[k] = "failed" => attempts[k] < maxAttempts'[k]
      BY <1>2, <2>2, <2>4, <3>1
    <3>5. status'[k] = "dead" => status[k] = "dead"
      BY <2>2
    <3> QED
      BY <3>1, <3>2, <3>3, <3>4, <3>5
  <2>6. \A k \in Event : maxAttempts'[k] <= attempts[k] + Attempts
    BY <2>2, <2>3 DEF AttemptsInv
  <2>7. PublisherInv'
    <3>1. \A k \in Event : attempts[k] < maxAttempts[k] => attempts[k] < maxAttempts'[k]
      BY <1>2, <2>4
    <3>2. pc \in {"deliver", "sent"} => current \in Event
      BY <1>3 DEF TypeOK
    <3>3. ASSUME pc \in {"deliver", "sent"}
          PROVE  limit <= maxAttempts'[current] /\ (sink[current] = 0 => limit = maxAttempts'[current])
      <4>1. limit <= maxAttempts[current] /\ (sink[current] = 0 => limit = maxAttempts[current])
        BY <3>3 DEF AttemptsInv, PublisherInv
      <4>2. limit <= maxAttempts'[current]
        BY <1>2, <2>4, <3>2, <3>3, <4>1 DEF TypeOK
      <4>3. ASSUME sink[current] = 0 PROVE maxAttempts'[current] = maxAttempts[current]
        <5>1. attempts[current] < maxAttempts[current] /\ current \in Event
          BY <3>2, <3>3, <4>3, <1>2 DEF AttemptsInv, PublisherInv
        <5>2. current \in DOMAIN request => request[current] = maxAttempts[current]
          BY <1>2, <2>3, <4>3, <5>1 DEF Granted
        <5> QED
          BY <2>2, <5>1, <5>2
      <4> QED
        BY <4>1, <4>2, <4>3
    <3> QED
      BY <1>3, <2>1, <3>1, <3>2, <3>3 DEF AttemptsInv, PublisherInv
  <2>8. RequestInv'
    BY <1>16 DEF CommitRequest, RequestInv, NoRequest
  <2> QED
    BY <2>1, <2>5, <2>6, <2>7, <2>8 DEF AttemptsInv
<1>17. CASE UNCHANGED vars
  BY <1>1, <1>17 DEF vars, rowVars, publisherVars, requestVars
<1> QED
  BY <1>4, <1>5, <1>6, <1>7, <1>8, <1>9, <1>10, <1>11, <1>12, <1>13, <1>14, <1>15, <1>16, <1>17
  DEF Next, Publish

LEMMA AttemptsInvariant == Spec => []AttemptsInv
<1>1. Init => AttemptsInv
  BY OutboxAssumption
  DEF Init, AttemptsInv, AttemptsRunOut, RequestInv, PublisherInv, NoRequest, Event
<1> QED
  BY <1>1, AttemptsStep, Types, PTL DEF Spec

\* No event is attempted more often than allowed, one that t2c_data does not have is given
\* up exactly when its attempts are used up, and a failed one has some left: whatever the
\* administrators' requests overwrite.
THEOREM AttemptsAreBounded == Spec => []AttemptsRunOut
<1>1. AttemptsInv => AttemptsRunOut
  BY DEF AttemptsInv
<1> QED
  BY <1>1, AttemptsInvariant, PTL

-----------------------------------------------------------------------------
(* The outbox implements the promise *)

AbstractVars == <<EventState, AttemptsLeft>>

\* Steps that leave the table as it is, or change what nobody sees of it, are stutters.
LEMMA StutterStep ==
  ASSUME UNCHANGED <<attempts, maxAttempts, sink>>,
         \A k \in Event : \/ sink[k] > 0
                          \/ status'[k] = status[k]
                          \/ {status[k], status'[k]} \cap {"absent", "dead"} = {}
  PROVE  UNCHANGED AbstractVars
BY DEF AbstractVars, EventState, AttemptsLeft

\* A failure that is recorded is a failed attempt of an event, or of one that is delivered.
LEMMA RecordFailureStep ==
  ASSUME TypeOK, AttemptsInv, pc \in {"deliver", "sent"}, NEW n \in Nat, RecordFailure(n),
         \/ pc = "deliver" /\ n = attempts[current] + 1
         \/ pc = "sent" /\ n = attempts[current]
  PROVE  \/ \E k \in Event : Promise!Fail(k)
         \/ UNCHANGED AbstractVars
<1>1. current \in Event
  BY OutboxAssumption DEF TypeOK, Event
<1>2. \A k \in Event : attempts[k] \in Nat /\ maxAttempts[k] \in Nat /\ sink[k] \in Nat
  BY DEF TypeOK
<1>3. UNCHANGED <<maxAttempts, sink>>
  BY DEF RecordFailure
<1>7. sink[current] = 0 => limit = maxAttempts[current]
  BY DEF AttemptsInv, PublisherInv
<1>4. \A k \in Event :
        /\ attempts'[k] = IF k = current THEN n ELSE attempts[k]
        /\ status'[k] = IF k # current THEN status[k]
                        ELSE IF n >= limit THEN "dead" ELSE "failed"
  BY DEF RecordFailure, Exhausted, TypeOK
<1>5. CASE sink[current] > 0
  <2>1. EventState' = EventState
    BY <1>3, <1>4, <1>5 DEF EventState
  <2>2. AttemptsLeft' = AttemptsLeft
    BY <1>3, <1>4, <1>5 DEF AttemptsLeft
  <2> QED
    BY <2>1, <2>2 DEF AbstractVars
<1>6. CASE sink[current] = 0
  <2>0. ~(sink[current] > 0)
    BY <1>6
  <2>1. pc = "deliver" /\ n = attempts[current] + 1 /\ attempts[current] < maxAttempts[current]
    BY <1>6 DEF AttemptsInv, PublisherInv
  <2>2. status[current] # "dead"
    BY <1>1, <1>2, <1>6, <2>1 DEF AttemptsInv, AttemptsRunOut
  <2>3. status[current] # "absent"
    BY OutboxAssumption, <1>1 DEF TypeOK, Event
  <2>4. EventState[current] = "waiting" /\ AttemptsLeft[current] = maxAttempts[current] - attempts[current]
    BY <1>1, <1>6, <2>2, <2>3 DEF EventState, AttemptsLeft
  <2>5. EventState' = [EventState EXCEPT ![current] =
                         IF AttemptsLeft[current] = 1 THEN "dead" ELSE "waiting"]
    <3>1. n >= maxAttempts[current] <=> AttemptsLeft[current] = 1
      BY <1>1, <1>2, <2>1, <2>4
    <3>2. \A k \in Event : EventState'[k] = IF k # current THEN EventState[k]
                                            ELSE IF n >= maxAttempts[current] THEN "dead"
                                            ELSE "waiting"
      BY <1>3, <1>4, <1>6, <1>7, <2>0 DEF EventState
    <3> QED
      BY <3>1, <3>2, <1>1 DEF EventState
  <2>6. AttemptsLeft' = [AttemptsLeft EXCEPT ![current] = @ - 1]
    <3>1. maxAttempts[current] - n = AttemptsLeft[current] - 1
      BY <1>1, <1>2, <2>1, <2>4
    <3>2. \A k \in Event : AttemptsLeft'[k] = IF k # current THEN AttemptsLeft[k]
                                              ELSE maxAttempts[current] - n
      BY <1>3, <1>4, <2>0 DEF AttemptsLeft
    <3> QED
      BY <3>1, <3>2, <1>1 DEF AttemptsLeft
  <2>7. AttemptsLeft[current] > 0
    BY <1>1, <1>2, <2>1, <2>4
  <2> QED
    BY <1>1, <2>4, <2>5, <2>6, <2>7 DEF Promise!Fail, Promise!Attempt
<1> QED
  BY <1>1, <1>2, <1>5, <1>6

\* The commit of a request asks again for the undelivered events it reschedules.
LEMMA CommitRequestStep ==
  ASSUME TypeOK, AttemptsInv, CommitRequest
  PROVE  \E K \in SUBSET Event : Promise!AskAgain(K)
<1> DEFINE K == {k \in DOMAIN request : sink[k] = 0 /\ status'[k] # "dead"}
           renewed == {k \in K : request[k] # maxAttempts[k]}
<1>1. UNCHANGED <<attempts, sink>>
  BY DEF CommitRequest
<1>2. \A k \in Event :
        /\ status'[k] = IF k \in repend THEN "pending" ELSE status[k]
        /\ maxAttempts'[k] = IF k \in DOMAIN request THEN request[k] ELSE maxAttempts[k]
  BY DEF CommitRequest
<1>3. /\ DOMAIN request \subseteq Event /\ repend \subseteq DOMAIN request
      /\ \A k \in DOMAIN request : status[k] # "absent" /\ Granted(k)
  BY OutboxAssumption DEF TypeOK, Event, AttemptsInv, RequestInv
<1>4. \A k \in Event : attempts[k] \in Nat /\ maxAttempts[k] \in Nat /\ sink[k] \in Nat
  BY DEF TypeOK
<1>5. \A k \in K : EventState[k] \in {"waiting", "dead"}
  BY <1>3 DEF EventState
<1>6. EventState' = [k \in Event |-> IF k \in K THEN "waiting" ELSE EventState[k]]
  <2> SUFFICES ASSUME NEW k \in Event
               PROVE  EventState'[k] = IF k \in K THEN "waiting" ELSE EventState[k]
    BY DEF EventState
  <2>1. CASE sink[k] > 0
    BY <1>1, <2>1 DEF EventState
  <2>2. CASE k \in K
    BY <1>1, <1>2, <1>3, <2>2 DEF EventState
  <2>3. CASE k \notin K /\ sink[k] = 0
    <3>1. status'[k] = status[k]
      BY <1>2, <1>3, <2>3
    <3> QED
      BY <1>1, <2>3, <3>1 DEF EventState
  <2> QED
    BY <1>4, <2>1, <2>2, <2>3
<1>7. AttemptsLeft' = [k \in Event |-> IF k \in renewed THEN Attempts ELSE AttemptsLeft[k]]
  <2> SUFFICES ASSUME NEW k \in Event
               PROVE  AttemptsLeft'[k] = IF k \in renewed THEN Attempts ELSE AttemptsLeft[k]
    BY DEF AttemptsLeft
  <2>1. CASE sink[k] > 0
    BY <1>1, <2>1 DEF AttemptsLeft
  <2>2. CASE k \in renewed
    <3>1. maxAttempts'[k] = attempts[k] + Attempts /\ sink[k] = 0 /\ sink'[k] = 0
      BY <1>1, <1>2, <1>3, <2>2 DEF Granted
    <3>2. ~(sink'[k] > 0)
      BY <3>1
    <3>3. AttemptsLeft'[k] = maxAttempts'[k] - attempts'[k]
      BY <3>2 DEF AttemptsLeft
    <3>4. attempts'[k] = attempts[k]
      BY <1>1
    <3>5. AttemptsLeft'[k] = Attempts
      BY <1>4, <3>1, <3>3, <3>4, OutboxAssumption
    <3> QED
      BY <2>2, <3>5
  <2>3. CASE k \notin renewed /\ sink[k] = 0
    <3>1. maxAttempts'[k] = maxAttempts[k]
      <4>1. ASSUME k \in DOMAIN request, request[k] # maxAttempts[k] PROVE FALSE
        <5>1. status'[k] = "dead"
          BY <2>3, <4>1
        <5>2. k \in repend \/ status[k] = "pending"
          BY <1>3, <2>3, <4>1 DEF Granted
        <5> QED
          BY <1>2, <5>1, <5>2
      <4> QED
        BY <1>2, <4>1
    <3> QED
      BY <1>1, <2>3, <3>1 DEF AttemptsLeft
  <2> QED
    BY <1>4, <2>1, <2>2, <2>3
<1>8. K \in SUBSET Event /\ renewed \in SUBSET K
  BY <1>3
<1> HIDE DEF K, renewed
<1> QED
  BY <1>5, <1>6, <1>7, <1>8 DEF Promise!AskAgain

\* What t2c_data and the administrators see of the events is the promise of Delivery: a
\* delivered event stays delivered, an undelivered one is given up after as many failed
\* attempts as it was allowed, and no step shows anything in between.
THEOREM KeepsThePromise == Spec => ImplementsDelivery
<1>1. Init => Promise!Init
  BY OutboxAssumption DEF Init, Promise!Init, EventState, AttemptsLeft, Event
<1>2. TypeOK /\ AttemptsInv /\ [Next]_vars => [Promise!Next]_AbstractVars
  <2> SUFFICES ASSUME TypeOK, AttemptsInv, [Next]_vars
               PROVE  Promise!Next \/ UNCHANGED AbstractVars
    BY DEF AbstractVars
  <2>1. CASE Enqueue
    <3>1. last + 1 \in Event /\ status[last + 1] = "absent"
      BY <2>1, OutboxAssumption DEF Enqueue, TypeOK, Event
    <3>2. /\ UNCHANGED <<attempts, maxAttempts, sink>>
          /\ \A k \in Event : status'[k] = IF k = last + 1 THEN "pending" ELSE status[k]
      BY <2>1 DEF Enqueue, TypeOK
    <3>3. CASE sink[last + 1] > 0
      BY <3>1, <3>2, <3>3, StutterStep
    <3>4. CASE sink[last + 1] = 0
      <4>1. EventState[last + 1] = "absent"
        BY <3>1, <3>4 DEF EventState
      <4>2. EventState' = [EventState EXCEPT ![last + 1] = "waiting"] /\ UNCHANGED AttemptsLeft
        <5>1. ~(sink[last + 1] > 0)
          BY <3>4
        <5>2. \A k \in Event : EventState'[k] = IF k = last + 1 THEN "waiting" ELSE EventState[k]
          BY <3>1, <3>2, <5>1 DEF EventState
        <5> QED
          BY <3>1, <3>2, <5>2 DEF EventState, AttemptsLeft
      <4> QED
        BY <3>1, <4>1, <4>2 DEF Promise!Next, Promise!Accept
    <3> QED
      BY <3>1, <3>3, <3>4 DEF TypeOK
  <2>2. CASE Mark
    <3>1. PICK k \in todo : status' = [status EXCEPT ![k] = "processing"]
      BY <2>2 DEF Mark
    <3>2. UNCHANGED <<attempts, maxAttempts, sink>>
      BY <2>2 DEF Mark
    <3>3. k \in Event /\ attempts[k] < maxAttempts[k] /\ status[k] # "absent"
      BY OutboxAssumption DEF TypeOK, Event, AttemptsInv, PublisherInv
    <3>4. attempts[k] \in Nat /\ maxAttempts[k] \in Nat /\ sink[k] \in Nat
      BY <3>3 DEF TypeOK
    <3>5. status[k] = "dead" => sink[k] > 0
      BY <3>3, <3>4 DEF AttemptsInv, AttemptsRunOut
    <3>6. \A j \in Event : status'[j] = IF j = k THEN "processing" ELSE status[j]
      BY <3>1 DEF TypeOK
    <3> QED
      BY <3>2, <3>3, <3>5, <3>6, StutterStep
  <2>3. CASE Deliver
    <3>1. current \in Event /\ attempts[current] < maxAttempts[current]
      BY <2>3, OutboxAssumption DEF Deliver, TypeOK, Event, AttemptsInv, PublisherInv
    <3>2. \A k \in Event : attempts[k] \in Nat /\ maxAttempts[k] \in Nat /\ sink[k] \in Nat
      BY DEF TypeOK
    <3>3. UNCHANGED maxAttempts /\ \A k \in Event :
            /\ status'[k] = IF k = current THEN "sent" ELSE status[k]
            /\ attempts'[k] = IF k = current THEN attempts[k] + 1 ELSE attempts[k]
            /\ sink'[k] = IF k = current THEN Delivered(sink[k]) ELSE sink[k]
      BY <2>3 DEF Deliver, TypeOK
    <3>4. sink'[current] > 0
      BY <3>1, <3>2, <3>3 DEF Delivered
    <3>5. /\ EventState' = [EventState EXCEPT ![current] = "delivered"]
          /\ AttemptsLeft' = [AttemptsLeft EXCEPT ![current] = 0]
      BY <3>1, <3>3, <3>4 DEF EventState, AttemptsLeft
    <3>6. CASE sink[current] > 0
      <4>1. EventState[current] = "delivered" /\ AttemptsLeft[current] = 0
        BY <3>1, <3>6 DEF EventState, AttemptsLeft
      <4>2. EventState' = EventState /\ AttemptsLeft' = AttemptsLeft
        BY <3>5, <4>1 DEF EventState, AttemptsLeft
      <4> QED
        BY <4>2 DEF AbstractVars
    <3>7. CASE sink[current] = 0
      <4>1. status[current] \notin {"absent", "dead"}
        BY <2>3, <3>1, <3>2, <3>7, OutboxAssumption
        DEF Deliver, TypeOK, Event, AttemptsInv, AttemptsRunOut
      <4>2. EventState[current] = "waiting" /\ AttemptsLeft[current] > 0
        BY <3>1, <3>2, <3>7, <4>1 DEF EventState, AttemptsLeft
      <4> QED
        BY <3>1, <3>5, <4>2 DEF Promise!Next, Promise!Deliver, Promise!Attempt
    <3> QED
      BY <3>1, <3>2, <3>6, <3>7
  <2>4. CASE DeliveryFails
    <3>1. attempts[current] + 1 \in Nat
      BY <2>4, OutboxAssumption DEF DeliveryFails, TypeOK, Event
    <3> QED
      BY <2>4, <3>1, RecordFailureStep DEF DeliveryFails, Promise!Next
  <2>5. CASE ReadBackFails
    <3>1. attempts[current] \in Nat
      BY <2>5, OutboxAssumption DEF ReadBackFails, TypeOK, Event
    <3> QED
      BY <2>5, <3>1, RecordFailureStep DEF ReadBackFails, Promise!Next
  <2>6. CASE CommitRequest
    BY <2>6, CommitRequestStep DEF Promise!Next
  <2>7. CASE UNCHANGED <<status, attempts, maxAttempts, sink>>
    BY <2>7, StutterStep
  <2>8. ASSUME NEW k \in Event, BackoffPasses(k) \/ Retry(k)
        PROVE  UNCHANGED <<status, attempts, maxAttempts, sink>>
    BY <2>8 DEF BackoffPasses, Retry, ReadRequest, rowVars
  <2>9. CASE Select \/ Audited \/ NothingDue \/ Interrupt \/ RetryDead \/ UNCHANGED vars
    <3>1. UNCHANGED <<status, attempts, maxAttempts, sink>>
      BY <2>9 DEF Select, Audited, NothingDue, Interrupt, RetryDead, ReadRequest, vars, rowVars
    <3> QED
      BY <2>7, <3>1
  <2> QED
    BY <2>1, <2>2, <2>3, <2>4, <2>5, <2>6, <2>7, <2>8, <2>9 DEF Next, Publish
<1> QED
  BY <1>1, <1>2, Types, AttemptsInvariant, PTL
  DEF Spec, ImplementsDelivery, Promise!Spec, AbstractVars
=============================================================================
