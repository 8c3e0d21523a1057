--------------------------- MODULE ExecutionsProofs ---------------------------
(* Theorems about Executions, for every value of its constants. *)
EXTENDS Executions, FiniteSetTheorems, TLAPS

\* What inserting a row does to the table and to whoever refers to its rows.
LEMMA CreateKeepsTypes ==
  ASSUME RowsOK, RequestOK, NEW n \in Nat, NEW p \in 0..last, CreateExecution(n, p)
  PROVE  RowsOK' /\ last' \in Nat /\ last <= last'
<1> USE BoundsAssumption DEF RowsOK, CreateExecution, Exec, Status
<1>1. last + 1 \in Exec /\ last' = last + 1
  OBVIOUS
<1>2. status' \in [Exec -> Status] /\ \A e \in Exec : status'[e] = "absent" <=> e > last'
  BY <1>1
<1>3. attempt' \in [Exec -> Nat] /\ retryOf' \in [Exec -> 0..last']
  BY <1>1
<1> QED
  BY <1>1, <1>2, <1>3

\* _maybe_retry inserts a row or leaves the table as it is.
LEMMA RetryKeepsTypes ==
  ASSUME RowsOK, RequestOK, NEW e \in 1..last, MaybeRetry(e)
  PROVE  RowsOK' /\ last' \in Nat /\ last <= last'
<1>1. CASE RetryApplies(e) /\ CreateExecution(attempt[e] + 1, e)
  <2>1. attempt[e] + 1 \in Nat /\ e \in 0..last
    BY BoundsAssumption DEF RowsOK, Exec
  <2> QED
    BY <1>1, <2>1, CreateKeepsTypes
<1>2. CASE UNCHANGED rowVars
  BY <1>2, BoundsAssumption DEF RowsOK, rowVars
<1> QED
  BY <1>1, <1>2 DEF MaybeRetry

\* A subprocess that returns leaves its worker with an outcome to write.
LEMMA ReturnKeepsTypes ==
  ASSUME TypeOK, NEW w \in Worker, NEW r \in Ended, Returns(w, r), RowsOK', last' = last
  PROVE  TypeOK'
<1> USE DEF TypeOK, WorkersOK, RequestOK, Returns, Goto
<1>1. pc' = [pc EXCEPT ![w] = "fin"] /\ outcome' = [outcome EXCEPT ![w] = r] /\ pc[w] = "run"
  OBVIOUS
<1>2. pc' \in [Worker -> WorkerPc] /\ outcome' \in [Worker -> Ended \union {"none"}]
  BY <1>1 DEF WorkerPc, Executing
<1>3. \A v \in Worker : pc'[v] \in Holding <=> held'[v] # 0
  BY <1>1 DEF Holding, Executing
<1>4. \A v \in Worker : pc'[v] = "fin" => outcome'[v] \in Ended
  BY <1>1
<1>5. held' = held /\ stale' = stale /\ UNCHANGED <<apiVars, jobActive, runs, crashes>>
  OBVIOUS
<1> QED
  BY <1>2, <1>3, <1>4, <1>5 DEF apiVars

\* A heartbeat writes a lease and nothing else.
LEMMA TouchKeepsTypes ==
  ASSUME TypeOK, NEW w \in Worker, pc[w] = "run", TouchLease(w)
  PROVE  RowsOK' /\ last' = last
<1>1. lease' \in [Exec -> {"none", "live", "expired"}]
  BY DEF TypeOK, RowsOK, TouchLease
<1> QED
  BY <1>1 DEF TypeOK, RowsOK, TouchLease

\* The rows that workers hold, and those a reaper selected, exist.
LEMMA ReferencesExist ==
  ASSUME TypeOK
  PROVE  /\ \A w \in Worker : pc[w] \in Owning => held[w] \in 1..last /\ held[w] \in Exec
         /\ \A w \in Worker : stale[w] \subseteq 1..last /\ stale[w] \subseteq Exec
  BY BoundsAssumption DEF TypeOK, RowsOK, WorkersOK, Exec, Owning, Holding, Executing

\* Every step of the API, the workers and time keeps the type invariant.
LEMMA TypeStep == TypeOK /\ [Next]_vars => TypeOK'
<1> SUFFICES ASSUME TypeOK, [Next]_vars PROVE TypeOK'
  OBVIOUS
<1> USE BoundsAssumption, WorkersAssumption
    DEF TypeOK, RowsOK, WorkersOK, RequestOK, Exec, Status, Ended, Holding, WorkerPc, Executing, Reaping, Goto, Drop,
        rowVars, workerVars, apiVars
<1>1. ASSUME EnqueueRun PROVE TypeOK'
  BY <1>1 DEF EnqueueRun, CreateExecution
<1>2. ASSUME ToggleJob PROVE TypeOK'
  BY <1>2 DEF ToggleJob
<1>3. ASSUME NEW e \in Exec, CancelRead(e) PROVE TypeOK'
  BY <1>3 DEF CancelRead
<1>4. ASSUME CancelCommit PROVE TypeOK'
  <2>1. RowsOK'
    <3>1. apiExec \in Exec /\ apiExec <= last
      BY <1>4 DEF CancelCommit
    <3>2. CASE apiSeen = "queued" /\ status' = [status EXCEPT ![apiExec] = "cancelled"]
      BY <1>4, <3>1, <3>2 DEF CancelCommit
    <3>3. CASE /\ cancelRequested' = [cancelRequested EXCEPT ![apiExec] = TRUE]
               /\ UNCHANGED status
      BY <1>4, <3>1, <3>3 DEF CancelCommit
    <3> QED
      BY <1>4, <3>2, <3>3 DEF CancelCommit
  <2>2. WorkersOK' /\ RequestOK'
    BY <1>4 DEF CancelCommit
  <2> QED
    BY <1>4, <2>1, <2>2 DEF CancelCommit
<1>5. ASSUME NEW w \in Worker, ClaimLock(w) PROVE TypeOK'
  BY <1>5 DEF ClaimLock, Claimable
<1>6. ASSUME NEW w \in Worker, ClaimCommit(w) PROVE TypeOK'
  <2>1. held[w] \in Exec /\ held[w] <= last
    BY <1>6 DEF ClaimCommit
  <2>2. RowsOK'
    BY <1>6, <2>1 DEF ClaimCommit
  <2>3. WorkersOK' /\ RequestOK'
    BY <1>6 DEF ClaimCommit
  <2> QED
    BY <1>6, <2>2, <2>3 DEF ClaimCommit
<1>7. ASSUME NEW w \in Worker, NothingQueued(w) PROVE TypeOK'
  BY <1>7 DEF NothingQueued
<1>8. ASSUME NEW w \in Worker, PrepareFails(w) PROVE TypeOK'
  BY <1>8 DEF PrepareFails
<1>9. ASSUME NEW w \in Worker, Prepared(w) PROVE TypeOK'
  BY <1>9 DEF Prepared
<1>10. ASSUME NEW w \in Worker, Finish(w) PROVE TypeOK'
  <2>1. outcome[w] \in Ended /\ held[w] \in Exec /\ held[w] <= last
    BY <1>10 DEF Finish
  <2>2. RowsOK'
    BY <1>10, <2>1 DEF Finish
  <2>3. WorkersOK' /\ RequestOK'
    BY <1>10 DEF Finish
  <2> QED
    BY <1>10, <2>2, <2>3 DEF Finish
<1>11. ASSUME NEW w \in Worker, AfterRun(w) PROVE TypeOK'
  <2>1. held[w] \in 1..last
    BY <1>11 DEF AfterRun
  <2>2. RowsOK' /\ last' \in Nat /\ last <= last'
    BY <1>11, <2>1, RetryKeepsTypes DEF AfterRun
  <2>3. pc' \in [Worker -> WorkerPc] /\ held' \in [Worker -> 0..last']
    <3>1. pc' \in [Worker -> WorkerPc]
      BY <1>11 DEF AfterRun
    <3>2. held' \in [Worker -> 0..last']
      BY <1>11, <2>2 DEF AfterRun
    <3> QED
      BY <3>1, <3>2
  <2>4. /\ \A v \in Worker : pc'[v] \in Holding <=> held'[v] # 0
        /\ \A v \in Worker : pc'[v] = "fin" => outcome'[v] \in Ended
    BY <1>11 DEF AfterRun
  <2>5. stale' \in [Worker -> SUBSET (1..last')] /\ outcome' \in [Worker -> Ended \union {"none"}]
    <3>1. stale' = stale /\ outcome' = outcome
      BY <1>11 DEF AfterRun
    <3>2. stale \in [Worker -> SUBSET (1..last)] /\ outcome \in [Worker -> Ended \union {"none"}]
      OBVIOUS
    <3>3. last \in Nat /\ \A f \in 1..last : f \in 1..last'
      BY <2>2
    <3> QED
      BY <3>1, <3>2, <3>3
  <2>6. RequestOK'
    BY <1>11, <2>2 DEF AfterRun, apiVars
  <2> QED
    BY <1>11, <2>2, <2>3, <2>4, <2>5, <2>6 DEF AfterRun
<1>12. ASSUME NEW w \in Worker, ReapSelect(w) PROVE TypeOK'
  <2>1. RowsOK' /\ RequestOK'
    BY <1>12 DEF ReapSelect
  <2>2. stale' \in [Worker -> SUBSET (1..last')]
    BY <1>12 DEF ReapSelect, Expired
  <2>3. WorkersOK'
    BY <1>12, <2>2 DEF ReapSelect
  <2> QED
    BY <1>12, <2>1, <2>3 DEF ReapSelect
<1>13. ASSUME NEW w \in Worker, OrchestrateNothing(w) PROVE TypeOK'
  BY <1>13 DEF OrchestrateNothing
<1>14. ASSUME NEW w \in Worker, ReapFail(w) PROVE TypeOK'
  BY <1>14 DEF ReapFail
<1>15. ASSUME NEW w \in Worker, ReapRetry(w) PROVE TypeOK'
  <2>1. held[w] \in 1..last
    BY <1>15 DEF ReapRetry
  <2>2. RowsOK' /\ last' \in Nat /\ last <= last'
    BY <1>15, <2>1, RetryKeepsTypes DEF ReapRetry
  <2>3. pc' \in [Worker -> WorkerPc] /\ held' \in [Worker -> 0..last']
    <3>1. (IF stale[w] = {} THEN "poll" ELSE "reap") \in {"poll", "reap"}
      OBVIOUS
    <3>2. pc' \in [Worker -> WorkerPc]
      BY <1>15, <3>1 DEF ReapRetry
    <3>3. held' \in [Worker -> 0..last']
      BY <1>15, <2>2 DEF ReapRetry
    <3> QED
      BY <3>2, <3>3
  <2>4. /\ \A v \in Worker : pc'[v] \in Holding <=> held'[v] # 0
        /\ \A v \in Worker : pc'[v] = "fin" => outcome'[v] \in Ended
    BY <1>15 DEF ReapRetry
  <2>5. stale' \in [Worker -> SUBSET (1..last')] /\ outcome' \in [Worker -> Ended \union {"none"}]
    <3>1. stale' = stale /\ outcome' = outcome
      BY <1>15 DEF ReapRetry
    <3>2. stale \in [Worker -> SUBSET (1..last)] /\ outcome \in [Worker -> Ended \union {"none"}]
      OBVIOUS
    <3>3. last \in Nat /\ \A f \in 1..last : f \in 1..last'
      BY <2>2
    <3> QED
      BY <3>1, <3>2, <3>3
  <2>6. RequestOK'
    BY <1>15, <2>2 DEF ReapRetry, apiVars
  <2> QED
    BY <1>15, <2>2, <2>3, <2>4, <2>5, <2>6 DEF ReapRetry
<1>16. ASSUME NEW w \in Worker, Restart(w) PROVE TypeOK'
  BY <1>16 DEF Restart
<1>17. ASSUME NEW w \in Worker, ProcessExits(w) PROVE TypeOK'
  <2>1. PICK r \in Ended : Returns(w, r)
    BY <1>17 DEF ProcessExits
  <2>2. RowsOK' /\ last' = last
    BY <1>17 DEF ProcessExits
  <2> HIDE DEF TypeOK, RowsOK, WorkersOK, RequestOK, Ended
  <2> QED
    BY <2>1, <2>2, ReturnKeepsTypes
<1>18. ASSUME NEW w \in Worker, HeartbeatTimeout(w) PROVE TypeOK'
  <2>1. "timeout" \in Ended
    OBVIOUS
  <2> HIDE DEF TypeOK, RowsOK, WorkersOK, RequestOK, Ended
  <2>2. RowsOK' /\ last' = last
    BY <1>18, TouchKeepsTypes DEF HeartbeatTimeout, Returns
  <2> QED
    BY <1>18, <2>1, <2>2, ReturnKeepsTypes DEF HeartbeatTimeout
<1>19. ASSUME NEW w \in Worker, HeartbeatCancel(w) PROVE TypeOK'
  <2>1. "cancelled" \in Ended
    OBVIOUS
  <2> HIDE DEF TypeOK, RowsOK, WorkersOK, RequestOK, Ended
  <2>2. RowsOK' /\ last' = last
    BY <1>19, TouchKeepsTypes DEF HeartbeatCancel, Returns
  <2> QED
    BY <1>19, <2>1, <2>2, ReturnKeepsTypes DEF HeartbeatCancel
<1>20. ASSUME NEW w \in Worker, Heartbeat(w) PROVE TypeOK'
  <2>1. RowsOK' /\ last' = last
    <3> HIDE DEF TypeOK, RowsOK, WorkersOK, RequestOK
    <3> QED
      BY <1>20, TouchKeepsTypes DEF Heartbeat
  <2> QED
    BY <1>20, <2>1 DEF Heartbeat
<1>21. ASSUME NEW w \in Worker, Crash(w) PROVE TypeOK'
  <2>1. RowsOK' /\ RequestOK'
    BY <1>21 DEF Crash
  <2>2. stale' \in [Worker -> SUBSET (1..last')]
    BY <1>21 DEF Crash
  <2>3. WorkersOK'
    BY <1>21, <2>2 DEF Crash
  <2> QED
    BY <1>21, <2>1, <2>3 DEF Crash
<1>22. ASSUME NEW e \in Exec, LeaseExpires(e) PROVE TypeOK'
  BY <1>22 DEF LeaseExpires
<1>23. CASE UNCHANGED vars
  BY <1>23 DEF vars, rowVars, workerVars, apiVars
<1> QED BY <1>1, <1>2, <1>3, <1>4, <1>5, <1>6, <1>7, <1>8, <1>9, <1>10, <1>11, <1>12, <1>13, <1>14, <1>15, <1>16, <1>17, <1>18, <1>19, <1>20, <1>21, <1>22, <1>23 DEF Next, Api, Step

\* The rows, the workers and the request in flight stay well formed, and refer to rows
\* that exist, for any number of workers, runs, retries and crashes.
THEOREM TypeCorrect == Spec => []TypeOK
<1>1. Init => TypeOK
  BY BoundsAssumption DEF Init, TypeOK, RowsOK, WorkersOK, RequestOK, Holding, Exec, Status, Ended, WorkerPc, Executing, Reaping
<1>2. QED
  BY <1>1, TypeStep, PTL DEF Spec

-----------------------------------------------------------------------------

\* Every step keeps the rows in the hands of workers apart, and out of the queue.
LEMMA ClaimStep == TypeOK /\ ClaimInv /\ [Next]_vars => ClaimInv'
<1> SUFFICES ASSUME TypeOK, ClaimInv, [Next]_vars PROVE ClaimInv'
  OBVIOUS
<1> USE BoundsAssumption
    DEF TypeOK, RowsOK, WorkersOK, RequestOK, Exec, Ended, Holding, Executing, Reaping,
        Owning, ClaimInv, Goto, Drop, rowVars, workerVars, apiVars
<1>1. ASSUME EnqueueRun PROVE ClaimInv'
  BY <1>1 DEF EnqueueRun, CreateExecution
<1>2. ASSUME ToggleJob PROVE ClaimInv'
  BY <1>2 DEF ToggleJob
<1>3. ASSUME NEW e \in Exec, CancelRead(e) PROVE ClaimInv'
  BY <1>3 DEF CancelRead
<1>4. ASSUME CancelCommit PROVE ClaimInv'
  <2>1. pc' = pc /\ held' = held /\ stale' = stale
    BY <1>4 DEF CancelCommit
  <2>2. \A f \in Exec : status'[f] = status[f] \/ (f = apiExec /\ status'[f] = "cancelled")
    <3>1. status \in [Exec -> Status]
      OBVIOUS
    <3> HIDE DEF TypeOK, ClaimInv
    <3> QED
      BY <1>4, <3>1 DEF CancelCommit
  <2>3. \A v \in Worker : pc[v] = "claim" => held[v] # apiExec
    BY <1>4 DEF CancelCommit, Locked
  <2>4. (\A v \in Worker : pc[v] \in Owning => held[v] \in Exec) /\ (\A v \in Worker : stale[v] \subseteq Exec)
    BY ReferencesExist
  <2> HIDE DEF TypeOK
  <2> QED
    BY <2>1, <2>2, <2>3, <2>4
<1>5. ASSUME NEW w \in Worker, ClaimLock(w) PROVE ClaimInv'
  <2>1. /\ status' = status /\ stale' = stale /\ pc[w] = "poll" /\ pc'[w] = "claim"
        /\ status[held'[w]] = "queued" /\ ~Locked(held'[w])
    BY <1>5 DEF ClaimLock, Claimable
  <2>2. \A v \in Worker \ {w} : pc'[v] = pc[v] /\ held'[v] = held[v]
    BY <1>5 DEF ClaimLock
  <2>3. \A v \in Worker \ {w} : pc[v] \in Owning => held[v] # held'[w]
    BY <2>1 DEF Locked
  <2> HIDE DEF TypeOK
  <2> QED
    BY <2>1, <2>2, <2>3
<1>6. ASSUME NEW w \in Worker, ClaimCommit(w) PROVE ClaimInv'
  <2>1. \A v \in Worker \ {w} : pc'[v] = pc[v] /\ held'[v] = held[v]
    BY <1>6 DEF ClaimCommit
  <2>2. /\ pc[w] = "claim" /\ pc'[w] = "prep" /\ held' = held /\ stale' = stale
        /\ status' = [status EXCEPT ![held[w]] = "running"]
    BY <1>6 DEF ClaimCommit
  <2>3. \A f \in Exec : status'[f] = IF f = held[w] THEN "running" ELSE status[f]
    BY <2>2
  <2>4. (\A v \in Worker : pc[v] \in Owning => held[v] \in Exec) /\ (\A v \in Worker : stale[v] \subseteq Exec)
    BY ReferencesExist
  <2>5. \A v \in Worker \ {w} : pc[v] \in Owning => held[v] # held[w]
    BY <2>2
  <2>6. \A v \in Worker : pc'[v] = "claim" => status'[held'[v]] = "queued"
    BY <2>1, <2>2, <2>3, <2>4, <2>5
  <2>7. \A v \in Worker : pc'[v] \in {"post"} \union Executing => status'[held'[v]] # "queued"
    BY <2>1, <2>2, <2>3, <2>4, <2>5
  <2>8. \A u, v \in Worker :
          pc'[u] \in Owning /\ pc'[v] \in Owning /\ held'[u] = held'[v] => u = v
    <3>1. \A v \in Worker : pc'[v] \in Owning <=> pc[v] \in Owning
      BY <2>1, <2>2
    <3> QED
      BY <2>2, <3>1
  <2>9. \A v \in Worker : \A e \in stale'[v] : status'[e] # "queued"
    BY <2>2, <2>3, <2>4
  <2> QED
    BY <2>6, <2>7, <2>8, <2>9
<1>7. ASSUME NEW w \in Worker, NothingQueued(w) PROVE ClaimInv'
  BY <1>7 DEF NothingQueued
<1>8. ASSUME NEW w \in Worker, PrepareFails(w) PROVE ClaimInv'
  BY <1>8 DEF PrepareFails
<1>9. ASSUME NEW w \in Worker, Prepared(w) PROVE ClaimInv'
  BY <1>9 DEF Prepared
<1>10. ASSUME NEW w \in Worker, Finish(w) PROVE ClaimInv'
  <2>1. \A v \in Worker \ {w} : pc'[v] = pc[v] /\ held'[v] = held[v]
    BY <1>10 DEF Finish
  <2>2. /\ pc[w] = "fin" /\ pc'[w] = "post" /\ held' = held /\ stale' = stale
        /\ outcome[w] \in Ended /\ status' = [status EXCEPT ![held[w]] = outcome[w]]
    BY <1>10 DEF Finish
  <2>3. \A f \in Exec : status'[f] = status[f] \/ (f = held[w] /\ status'[f] # "queued")
    <3>1. status \in [Exec -> Status] /\ outcome[w] # "queued"
      BY <2>2
    <3> HIDE DEF TypeOK, ClaimInv
    <3> QED
      BY <2>2, <3>1
  <2>4. (\A v \in Worker : pc[v] \in Owning => held[v] \in Exec) /\ (\A v \in Worker : stale[v] \subseteq Exec)
    BY ReferencesExist
  <2> HIDE DEF TypeOK
  <2> QED
    BY <2>1, <2>2, <2>3, <2>4
<1>11. ASSUME NEW w \in Worker, AfterRun(w) PROVE ClaimInv'
  <2>1. \A v \in Worker \ {w} : pc'[v] = pc[v] /\ held'[v] = held[v]
    BY <1>11 DEF AfterRun
  <2>2. pc'[w] \notin Owning /\ stale' = stale
    BY <1>11 DEF AfterRun
  <2>3. \A f \in 1..last : status'[f] = status[f]
    BY <1>11 DEF AfterRun, MaybeRetry, CreateExecution
  <2>4. (\A v \in Worker : pc[v] \in Owning => held[v] \in 1..last) /\ (\A v \in Worker : stale[v] \subseteq 1..last)
    BY ReferencesExist
  <2> HIDE DEF TypeOK
  <2> QED
    BY <2>1, <2>2, <2>3, <2>4
<1>12. ASSUME NEW w \in Worker, ReapSelect(w) PROVE ClaimInv'
  BY <1>12 DEF ReapSelect, Expired
<1>13. ASSUME NEW w \in Worker, OrchestrateNothing(w) PROVE ClaimInv'
  BY <1>13 DEF OrchestrateNothing
<1>14. ASSUME NEW w \in Worker, ReapFail(w) PROVE ClaimInv'
  <2>1. PICK e \in stale[w] : /\ status' = [status EXCEPT ![e] = "failed"]
                             /\ held' = [held EXCEPT ![w] = e]
                             /\ stale' = [stale EXCEPT ![w] = @ \ {e}]
    BY <1>14 DEF ReapFail
  <2>2. \A v \in Worker \ {w} : pc'[v] = pc[v] /\ held'[v] = held[v]
    BY <1>14, <2>1 DEF ReapFail
  <2>3. pc'[w] \notin Owning
    BY <1>14 DEF ReapFail
  <2>4. \A v \in Worker : stale'[v] \subseteq stale[v]
    BY <2>1
  <2>5. \A f \in Exec : status'[f] = status[f] \/ (f = e /\ status'[f] = "failed")
    <3>1. status \in [Exec -> Status]
      OBVIOUS
    <3> HIDE DEF TypeOK, ClaimInv
    <3> QED
      BY <2>1, <3>1
  <2>6. status[e] # "queued"
    OBVIOUS
  <2>7. (\A v \in Worker : pc[v] \in Owning => held[v] \in Exec) /\ (\A v \in Worker : stale[v] \subseteq Exec)
    BY ReferencesExist
  <2> HIDE DEF TypeOK
  <2> QED
    BY <2>2, <2>3, <2>4, <2>5, <2>6, <2>7
<1>15. ASSUME NEW w \in Worker, ReapRetry(w) PROVE ClaimInv'
  <2>1. \A v \in Worker \ {w} : pc'[v] = pc[v] /\ held'[v] = held[v]
    BY <1>15 DEF ReapRetry
  <2>2. pc'[w] \notin Owning /\ stale' = stale
    BY <1>15 DEF ReapRetry
  <2>3. \A f \in 1..last : status'[f] = status[f]
    BY <1>15 DEF ReapRetry, MaybeRetry, CreateExecution
  <2>4. (\A v \in Worker : pc[v] \in Owning => held[v] \in 1..last) /\ (\A v \in Worker : stale[v] \subseteq 1..last)
    BY ReferencesExist
  <2> HIDE DEF TypeOK
  <2> QED
    BY <2>1, <2>2, <2>3, <2>4
<1>16. ASSUME NEW w \in Worker, Restart(w) PROVE ClaimInv'
  BY <1>16 DEF Restart
<1>17. ASSUME NEW w \in Worker, ProcessExits(w) PROVE ClaimInv'
  BY <1>17 DEF ProcessExits, Returns
<1>18. ASSUME NEW w \in Worker, HeartbeatTimeout(w) PROVE ClaimInv'
  BY <1>18 DEF HeartbeatTimeout, Returns, TouchLease
<1>19. ASSUME NEW w \in Worker, HeartbeatCancel(w) PROVE ClaimInv'
  BY <1>19 DEF HeartbeatCancel, Returns, TouchLease
<1>20. ASSUME NEW w \in Worker, Heartbeat(w) PROVE ClaimInv'
  BY <1>20 DEF Heartbeat, TouchLease
<1>21. ASSUME NEW w \in Worker, Crash(w) PROVE ClaimInv'
  <2>1. \A v \in Worker \ {w} : pc'[v] = pc[v] /\ held'[v] = held[v]
    BY <1>21 DEF Crash
  <2>2. pc'[w] \notin Owning /\ (\A v \in Worker : stale'[v] \subseteq stale[v]) /\ status' = status
    BY <1>21 DEF Crash
  <2> HIDE DEF TypeOK
  <2> QED
    BY <2>1, <2>2
<1>22. ASSUME NEW e \in Exec, LeaseExpires(e) PROVE ClaimInv'
  BY <1>22 DEF LeaseExpires
<1>23. CASE UNCHANGED vars
  BY <1>23 DEF vars, rowVars, workerVars, apiVars
<1> QED BY <1>1, <1>2, <1>3, <1>4, <1>5, <1>6, <1>7, <1>8, <1>9, <1>10, <1>11, <1>12, <1>13, <1>14, <1>15, <1>16, <1>17, <1>18, <1>19, <1>20, <1>21, <1>22, <1>23 DEF Next, Api, Step

\* Every write of the status running comes with a lease, and every write that clears a
\* lease ends the row.
LEMMA RecoverableStep == TypeOK /\ RunningIsRecoverable /\ [Next]_vars => RunningIsRecoverable'
<1> SUFFICES ASSUME TypeOK, RunningIsRecoverable, [Next]_vars PROVE RunningIsRecoverable'
  OBVIOUS
<1> USE BoundsAssumption
    DEF TypeOK, RowsOK, WorkersOK, RequestOK, Exec, Ended, Holding, Executing,
        RunningIsRecoverable, rowVars, workerVars, apiVars
<1>1. ASSUME EnqueueRun PROVE RunningIsRecoverable'
  BY <1>1 DEF EnqueueRun, CreateExecution
<1>2. ASSUME ToggleJob PROVE RunningIsRecoverable'
  BY <1>2 DEF ToggleJob
<1>3. ASSUME NEW e \in Exec, CancelRead(e) PROVE RunningIsRecoverable'
  BY <1>3 DEF CancelRead
<1>4. ASSUME CancelCommit PROVE RunningIsRecoverable'
  BY <1>4 DEF CancelCommit
<1>5. ASSUME NEW w \in Worker, ClaimLock(w) PROVE RunningIsRecoverable'
  BY <1>5 DEF ClaimLock, Claimable
<1>6. ASSUME NEW w \in Worker, ClaimCommit(w) PROVE RunningIsRecoverable'
  BY <1>6 DEF ClaimCommit
<1>7. ASSUME NEW w \in Worker, NothingQueued(w) PROVE RunningIsRecoverable'
  BY <1>7 DEF NothingQueued
<1>8. ASSUME NEW w \in Worker, PrepareFails(w) PROVE RunningIsRecoverable'
  BY <1>8 DEF PrepareFails
<1>9. ASSUME NEW w \in Worker, Prepared(w) PROVE RunningIsRecoverable'
  BY <1>9 DEF Prepared
<1>10. ASSUME NEW w \in Worker, Finish(w) PROVE RunningIsRecoverable'
  BY <1>10 DEF Finish
<1>11. ASSUME NEW w \in Worker, AfterRun(w) PROVE RunningIsRecoverable'
  BY <1>11 DEF AfterRun, MaybeRetry, CreateExecution
<1>12. ASSUME NEW w \in Worker, ReapSelect(w) PROVE RunningIsRecoverable'
  BY <1>12 DEF ReapSelect, Expired
<1>13. ASSUME NEW w \in Worker, OrchestrateNothing(w) PROVE RunningIsRecoverable'
  BY <1>13 DEF OrchestrateNothing
<1>14. ASSUME NEW w \in Worker, ReapFail(w) PROVE RunningIsRecoverable'
  BY <1>14 DEF ReapFail
<1>15. ASSUME NEW w \in Worker, ReapRetry(w) PROVE RunningIsRecoverable'
  BY <1>15 DEF ReapRetry, MaybeRetry, CreateExecution
<1>16. ASSUME NEW w \in Worker, Restart(w) PROVE RunningIsRecoverable'
  BY <1>16 DEF Restart
<1>17. ASSUME NEW w \in Worker, ProcessExits(w) PROVE RunningIsRecoverable'
  BY <1>17 DEF ProcessExits, Returns
<1>18. ASSUME NEW w \in Worker, HeartbeatTimeout(w) PROVE RunningIsRecoverable'
  BY <1>18 DEF HeartbeatTimeout, Returns, TouchLease
<1>19. ASSUME NEW w \in Worker, HeartbeatCancel(w) PROVE RunningIsRecoverable'
  BY <1>19 DEF HeartbeatCancel, Returns, TouchLease
<1>20. ASSUME NEW w \in Worker, Heartbeat(w) PROVE RunningIsRecoverable'
  BY <1>20 DEF Heartbeat, TouchLease
<1>21. ASSUME NEW w \in Worker, Crash(w) PROVE RunningIsRecoverable'
  BY <1>21 DEF Crash
<1>22. ASSUME NEW e \in Exec, LeaseExpires(e) PROVE RunningIsRecoverable'
  BY <1>22 DEF LeaseExpires
<1>23. CASE UNCHANGED vars
  BY <1>23 DEF vars, rowVars, workerVars, apiVars
<1> QED BY <1>1, <1>2, <1>3, <1>4, <1>5, <1>6, <1>7, <1>8, <1>9, <1>10, <1>11, <1>12, <1>13, <1>14, <1>15, <1>16, <1>17, <1>18, <1>19, <1>20, <1>21, <1>22, <1>23 DEF Next, Api, Step

\* Each row of the table is claimed by one worker, once: the SELECT FOR UPDATE
\* SKIP LOCKED of _claim_next, and no handler puts a row back in the queue.
THEOREM ClaimedOnceHolds == Spec => []ClaimedOnce
<1>1. Init => ClaimInv
  BY DEF Init, ClaimInv, Owning, Executing
<1>2. ClaimInv => ClaimedOnce
  BY DEF ClaimInv, ClaimedOnce, Owning, Executing
<1>3. QED
  BY <1>1, <1>2, ClaimStep, TypeCorrect, PTL DEF Spec

\* No running row is out of the reaper's reach.
THEOREM Recoverable == Spec => []RunningIsRecoverable
<1>1. Init => RunningIsRecoverable
  BY DEF Init, RunningIsRecoverable
<1>2. QED
  BY <1>1, RecoverableStep, TypeCorrect, PTL DEF Spec

-----------------------------------------------------------------------------
(* Ends, and retries when workers stall *)

\* No handler makes a row that ended queued or running: only a claim makes one running, and the
\* row it locked is still in the queue.
LEMMA EndsKept ==
  ASSUME TypeOK, ClaimInv, [Next]_vars, NEW e \in Exec, status[e] \in Ended
  PROVE  status'[e] \in Ended
<1>1. /\ status \in [Exec -> Status] /\ e <= last /\ last \in Nat
      /\ \A w \in Worker : pc[w] = "fin" => outcome[w] \in Ended
      /\ \A w \in Worker : pc[w] = "claim" => held[w] # e
  <2>1. status \in [Exec -> Status] /\ last \in Nat /\ (status[e] = "absent" <=> e > last)
    BY BoundsAssumption DEF TypeOK, RowsOK, Exec
  <2>2. e <= last
    BY <2>1 DEF Ended, Exec
  <2>3. \A w \in Worker : pc[w] = "fin" => outcome[w] \in Ended
    BY DEF TypeOK, WorkersOK
  <2>4. \A w \in Worker : pc[w] = "claim" => held[w] # e
    BY DEF ClaimInv, Ended
  <2> QED
    BY <2>1, <2>2, <2>3, <2>4
<1>2. ASSUME NEW n, NEW p, CreateExecution(n, p) PROVE status'[e] \in Ended
  BY <1>1, <1>2 DEF CreateExecution, Exec
<1>3. ASSUME NEW f, MaybeRetry(f) PROVE status'[e] \in Ended
  BY <1>2, <1>3 DEF MaybeRetry, rowVars
<1>4. ASSUME Api PROVE status'[e] \in Ended
  BY <1>1, <1>2, <1>4 DEF Api, EnqueueRun, ToggleJob, CancelRead, CancelCommit, rowVars, Ended
<1>5. ASSUME NEW w \in Worker, Step(w) PROVE status'[e] \in Ended
  BY <1>1, <1>3, <1>5 DEF Step, ClaimLock, ClaimCommit, NothingQueued, PrepareFails, Prepared, Finish, AfterRun,
     ReapSelect, OrchestrateNothing, ReapFail, ReapRetry, Restart, rowVars, Ended
<1>6. ASSUME NEW w \in Worker, ProcessExits(w) \/ HeartbeatTimeout(w) \/ HeartbeatCancel(w) \/ Heartbeat(w) \/ Crash(w)
      PROVE  status'[e] \in Ended
  BY <1>6 DEF ProcessExits, HeartbeatTimeout, HeartbeatCancel, Heartbeat, TouchLease, Crash, rowVars
<1>7. ASSUME NEW f \in Exec, LeaseExpires(f) PROVE status'[e] \in Ended
  BY <1>7 DEF LeaseExpires
<1>8. CASE UNCHANGED vars
  BY <1>8 DEF vars, rowVars
<1> QED
  BY <1>4, <1>5, <1>6, <1>7, <1>8 DEF Next

\* What ended is over for good, whatever workers stall and whatever cancel requests race: what a
\* pipeline step and a backfill rely on when they look no more.
THEOREM EndsAreForGood == Spec => EndedStaysEnded
<1>1. Init => ClaimInv
  BY DEF Init, ClaimInv, Owning, Executing
<1>2. TypeOK /\ ClaimInv /\ [Next]_vars => [\A e \in Exec : status[e] \in Ended => status'[e] \in Ended]_vars
  BY EndsKept
<1>3. QED
  BY <1>1, <1>2, ClaimStep, TypeCorrect, PTL DEF Spec, EndedStaysEnded

\* One reaper at a time has rows selected, and the row it is to retry has ended and is no longer among them.
ReaperInv ==
  /\ \A v, w \in Worker : pc[v] \in Reaping /\ pc[w] \in Reaping => v = w
  /\ \A w \in Worker : stale[w] # {} => pc[w] \in Reaping
  /\ \A w \in Worker : pc[w] = "reaped" => held[w] \notin stale[w] /\ status[held[w]] \in Ended

\* The worker that has, or will claim, the execution may yet retry it ...
OwnerMay(e) == status[e] \in {"absent", "queued"} \/ \E w \in Worker : pc[w] \in {"post"} \union Executing /\ held[w] = e
\* ... and so may a reaper that has selected it, or will.
ReaperMay(e) ==
  \/ status[e] \in {"absent", "queued", "running"}
  \/ \E w \in Worker : e \in stale[w] \/ (pc[w] = "reaped" /\ held[w] = e)

\* Retries that were made and retries that may be made are two together.
Budget ==
  \A e \in Exec :
    /\ OwnerMay(e) /\ ReaperMay(e) => \A r \in Exec : retryOf[r] # e
    /\ OwnerMay(e) \/ ReaperMay(e) => \A r, s \in Exec : retryOf[r] = e /\ retryOf[s] = e => r = s
    /\ \A r, s, t \in Exec : retryOf[r] = e /\ retryOf[s] = e /\ retryOf[t] = e => r = s \/ s = t \/ r = t

\* A step that lets nobody else retry ...
MayKept == \A e \in Exec : (OwnerMay(e)' => OwnerMay(e)) /\ (ReaperMay(e)' => ReaperMay(e))

\* ... keeps the budget, if it adds no row or if the row it adds is a run that was asked for ...
LEMMA BudgetKept ==
  ASSUME Budget, MayKept, \A r \in Exec : retryOf'[r] \in {retryOf[r], 0}
  PROVE  Budget'
<1> SUFFICES ASSUME NEW e \in Exec
             PROVE  /\ OwnerMay(e)' /\ ReaperMay(e)' => \A r \in Exec : retryOf'[r] # e
                    /\ OwnerMay(e)' \/ ReaperMay(e)' =>
                         \A r, s \in Exec : retryOf'[r] = e /\ retryOf'[s] = e => r = s
                    /\ \A r, s, t \in Exec :
                         retryOf'[r] = e /\ retryOf'[s] = e /\ retryOf'[t] = e => r = s \/ s = t \/ r = t
  BY DEF Budget
<1>1. \A r \in Exec : retryOf'[r] = e => retryOf[r] = e
  BY DEF Exec
<1> QED
  BY <1>1 DEF Budget, MayKept

\* ... or if the row is the retry of an execution by one who might and no longer may.
LEMMA BudgetSpent ==
  ASSUME Budget, MayKept, NEW p \in Exec, NEW q \in Exec,
         \A r \in Exec : retryOf'[r] = IF r = q THEN p ELSE retryOf[r],
         (OwnerMay(p) /\ ~OwnerMay(p)') \/ (ReaperMay(p) /\ ~ReaperMay(p)')
  PROVE  Budget'
<1> SUFFICES ASSUME NEW e \in Exec
             PROVE  /\ OwnerMay(e)' /\ ReaperMay(e)' => \A r \in Exec : retryOf'[r] # e
                    /\ OwnerMay(e)' \/ ReaperMay(e)' =>
                         \A r, s \in Exec : retryOf'[r] = e /\ retryOf'[s] = e => r = s
                    /\ \A r, s, t \in Exec :
                         retryOf'[r] = e /\ retryOf'[s] = e /\ retryOf'[t] = e => r = s \/ s = t \/ r = t
  BY DEF Budget
<1>1. CASE e # p
  <2>1. \A r \in Exec : retryOf'[r] = e => retryOf[r] = e
    BY <1>1
  <2> QED
    BY <2>1 DEF Budget, MayKept
<1>2. CASE e = p
  <2>1. ~(OwnerMay(e)' /\ ReaperMay(e)')
    BY <1>2
  <2>2. \A r \in Exec : retryOf'[r] = e => r = q \/ retryOf[r] = e
    OBVIOUS
  <2>3. \A r, s \in Exec : retryOf[r] = e /\ retryOf[s] = e => r = s
    BY <1>2 DEF Budget
  <2>4. OwnerMay(e)' \/ ReaperMay(e)' => \A r \in Exec : retryOf[r] # e
    BY <1>2 DEF Budget, MayKept
  <2> QED
    BY <2>1, <2>2, <2>3, <2>4
<1> QED
  BY <1>1, <1>2

\* Every step keeps the reapers apart.
LEMMA ReaperStep ==
  ASSUME TypeOK, ClaimInv, ReaperInv, [Next]_vars
  PROVE  ReaperInv'
<1> USE DEF Goto, Drop, workerVars, apiVars
<1>1. \A w \in Worker : pc[w] = "reaped" => held[w] \in Exec /\ status'[held[w]] \in Ended
  <2>1. \A w \in Worker : pc[w] = "reaped" => held[w] \in Exec /\ status[held[w]] \in Ended
    BY BoundsAssumption DEF ReaperInv, TypeOK, WorkersOK, RowsOK, Holding, Exec
  <2> QED
    BY <2>1, EndsKept
<1>2. ASSUME UNCHANGED <<pc, held, stale>> PROVE ReaperInv'
  BY <1>1, <1>2 DEF ReaperInv
<1>3. pc \in [Worker -> WorkerPc] /\ held \in [Worker -> 0..last] /\ stale \in [Worker -> SUBSET Exec]
      /\ last \in Nat /\ \A w \in Worker : stale[w] \subseteq Exec
  BY BoundsAssumption DEF TypeOK, WorkersOK, RowsOK, Exec
<1>4. ASSUME NEW w \in Worker, \A v \in Worker \ {w} : pc'[v] = pc[v] /\ held'[v] = held[v] /\ stale'[v] = stale[v],
             pc'[w] \in Reaping => pc[w] \in Reaping \/ LockFree,
             stale'[w] # {} => pc'[w] \in Reaping,
             pc'[w] = "reaped" => held'[w] \notin stale'[w] /\ status'[held'[w]] \in Ended
      PROVE  ReaperInv'
  BY <1>1, <1>4 DEF ReaperInv, LockFree
<1>5. ASSUME NEW w \in Worker, Step(w) PROVE ReaperInv'
  <2>1. CASE ClaimLock(w) \/ NothingQueued(w) \/ ClaimCommit(w) \/ PrepareFails(w) \/ Prepared(w) \/ Finish(w) \/ AfterRun(w)
             \/ OrchestrateNothing(w) \/ Restart(w)
    <3>1. \A v \in Worker \ {w} : pc'[v] = pc[v] /\ held'[v] = held[v] /\ stale'[v] = stale[v]
      BY <1>3, <2>1 DEF ClaimLock, NothingQueued, ClaimCommit, PrepareFails, Prepared, Finish, AfterRun, OrchestrateNothing, Restart
    <3>2. pc[w] \notin Reaping /\ pc'[w] \notin Reaping /\ stale'[w] = stale[w]
      BY <1>3, <2>1 DEF ClaimLock, NothingQueued, ClaimCommit, PrepareFails, Prepared, Finish, AfterRun, OrchestrateNothing, Restart,
         Reaping
    <3> QED
      BY <1>4, <3>1, <3>2 DEF ReaperInv, Reaping
  <2>2. CASE ReapSelect(w)
    BY <1>3, <1>4, <2>2 DEF ReapSelect, Reaping
  <2>3. CASE ReapFail(w)
    <3>1. PICK e \in stale[w] : /\ status' = [status EXCEPT ![e] = "failed"] /\ held' = [held EXCEPT ![w] = e]
                                /\ stale' = [stale EXCEPT ![w] = @ \ {e}]
      BY <2>3 DEF ReapFail
    <3>2. status'[e] = "failed"
      BY <1>3, <3>1 DEF TypeOK, RowsOK
    <3>3. pc' = [pc EXCEPT ![w] = "reaped"] /\ pc[w] = "reap"
      BY <2>3 DEF ReapFail
    <3> QED
      BY <1>3, <1>4, <3>1, <3>2, <3>3 DEF Reaping, Ended
  <2>4. CASE ReapRetry(w)
    <3>1. /\ pc[w] = "reaped" /\ stale' = stale /\ held' = [held EXCEPT ![w] = 0]
          /\ pc' = [pc EXCEPT ![w] = IF stale[w] = {} THEN "poll" ELSE "reap"]
      BY <2>4 DEF ReapRetry
    <3> QED
      BY <1>3, <1>4, <3>1 DEF Reaping
  <2> QED
    BY <1>5, <2>1, <2>2, <2>3, <2>4 DEF Step
<1>6. ASSUME NEW w \in Worker, ProcessExits(w) \/ HeartbeatTimeout(w) \/ HeartbeatCancel(w) \/ Crash(w)
      PROVE  ReaperInv'
  <2>1. /\ \A v \in Worker \ {w} : pc'[v] = pc[v] /\ held'[v] = held[v] /\ stale'[v] = stale[v]
        /\ pc'[w] \in {"fin", "down"} /\ (stale'[w] = {} \/ (stale' = stale /\ pc[w] = "run"))
    BY <1>3, <1>6 DEF ProcessExits, HeartbeatTimeout, HeartbeatCancel, Returns, Crash
  <2>2. stale'[w] = {}
    BY <2>1 DEF ReaperInv, Reaping
  <2> QED
    BY <1>4, <2>1, <2>2 DEF Reaping
<1>7. ASSUME Api \/ (\E w \in Worker : Heartbeat(w)) \/ (\E e \in Exec : LeaseExpires(e)) PROVE UNCHANGED <<pc, held, stale>>
  BY <1>7 DEF Api, EnqueueRun, ToggleJob, CancelRead, CancelCommit, Heartbeat, LeaseExpires
<1>8. CASE UNCHANGED vars
  BY <1>2, <1>8 DEF vars
<1> QED
  BY <1>2, <1>5, <1>6, <1>7, <1>8 DEF Next

\* No handler puts a row back in the queue.
LEMMA NeverRequeued ==
  ASSUME TypeOK, [Next]_vars, NEW e \in Exec, status[e] \notin {"absent", "queued"}
  PROVE  status'[e] \notin {"absent", "queued"}
<1>1. /\ status \in [Exec -> Status] /\ e <= last /\ last \in Nat
      /\ \A w \in Worker : pc[w] = "fin" => outcome[w] \in Ended
  <2>1. status \in [Exec -> Status] /\ last \in Nat /\ (status[e] = "absent" <=> e > last)
    BY BoundsAssumption DEF TypeOK, RowsOK, Exec
  <2>2. e <= last
    BY <2>1 DEF Exec
  <2> QED
    BY <2>1, <2>2 DEF TypeOK, WorkersOK
<1>2. ASSUME NEW n, NEW p, CreateExecution(n, p) PROVE status'[e] \notin {"absent", "queued"}
  BY <1>1, <1>2 DEF CreateExecution, Exec
<1>3. ASSUME NEW f, MaybeRetry(f) PROVE status'[e] \notin {"absent", "queued"}
  BY <1>2, <1>3 DEF MaybeRetry, rowVars
<1>4. ASSUME Api PROVE status'[e] \notin {"absent", "queued"}
  BY <1>1, <1>2, <1>4 DEF Api, EnqueueRun, ToggleJob, CancelRead, CancelCommit, rowVars
<1>5. ASSUME NEW w \in Worker, Step(w) PROVE status'[e] \notin {"absent", "queued"}
  BY <1>1, <1>3, <1>5 DEF Step, ClaimLock, ClaimCommit, NothingQueued, PrepareFails, Prepared, Finish, AfterRun,
     ReapSelect, OrchestrateNothing, ReapFail, ReapRetry, Restart, rowVars, Ended
<1>6. ASSUME NEW w \in Worker, ProcessExits(w) \/ HeartbeatTimeout(w) \/ HeartbeatCancel(w) \/ Heartbeat(w) \/ Crash(w)
      PROVE  status'[e] \notin {"absent", "queued"}
  BY <1>6 DEF ProcessExits, HeartbeatTimeout, HeartbeatCancel, Heartbeat, TouchLease, Crash, rowVars
<1>7. ASSUME NEW f \in Exec, LeaseExpires(f) PROVE status'[e] \notin {"absent", "queued"}
  BY <1>7 DEF LeaseExpires
<1>8. CASE UNCHANGED vars
  BY <1>8 DEF vars, rowVars
<1> QED
  BY <1>4, <1>5, <1>6, <1>7, <1>8 DEF Next

\* A step of worker w lets nobody else retry, if w may retry afterwards only what it, or the reaper, might.
LEMMA MayByStep ==
  ASSUME TypeOK, ClaimInv, [Next]_vars, NEW w \in Worker,
         \A v \in Worker \ {w} : pc'[v] = pc[v] /\ held'[v] = held[v] /\ stale'[v] = stale[v],
         pc'[w] \in {"post"} \union Executing => OwnerMay(held'[w]),
         \A e \in stale'[w] : ReaperMay(e),
         pc'[w] = "reaped" => ReaperMay(held'[w])
  PROVE  MayKept
<1> SUFFICES ASSUME NEW e \in Exec
             PROVE  (OwnerMay(e)' => OwnerMay(e)) /\ (ReaperMay(e)' => ReaperMay(e))
  BY DEF MayKept
<1>1. status'[e] \in {"absent", "queued"} => status[e] \in {"absent", "queued"}
  BY NeverRequeued
<1>2. status'[e] \in {"absent", "queued", "running"} => status[e] \in {"absent", "queued", "running"}
  BY EndsKept DEF TypeOK, RowsOK, Status, Ended
<1>3. OwnerMay(e)' => OwnerMay(e)
  BY <1>1 DEF OwnerMay
<1>4. ReaperMay(e)' => ReaperMay(e)
  BY <1>2 DEF ReaperMay
<1> QED
  BY <1>3, <1>4

LEMMA MayAsBefore ==
  ASSUME TypeOK, ClaimInv, [Next]_vars, UNCHANGED <<pc, held, stale>>
  PROVE  MayKept
<1> SUFFICES ASSUME NEW e \in Exec
             PROVE  (OwnerMay(e)' => OwnerMay(e)) /\ (ReaperMay(e)' => ReaperMay(e))
  BY DEF MayKept
<1>1. status'[e] \in {"absent", "queued"} => status[e] \in {"absent", "queued"}
  BY NeverRequeued
<1>2. status'[e] \in {"absent", "queued", "running"} => status[e] \in {"absent", "queued", "running"}
  BY EndsKept DEF TypeOK, RowsOK, Status, Ended
<1> QED
  BY <1>1, <1>2 DEF OwnerMay, ReaperMay

\* A retry of e by one who no longer may after it.
LEMMA RetrySpends ==
  ASSUME TypeOK, Budget, MayKept, NEW e \in 1..last, MaybeRetry(e),
         (OwnerMay(e) /\ ~OwnerMay(e)') \/ (ReaperMay(e) /\ ~ReaperMay(e)')
  PROVE  Budget'
<1>1. last \in Nat /\ e \in Exec /\ retryOf \in [Exec -> 0..last]
  BY BoundsAssumption DEF TypeOK, RowsOK, Exec
<1>2. CASE UNCHANGED rowVars
  BY <1>2, BudgetKept DEF rowVars
<1>3. CASE CreateExecution(attempt[e] + 1, e)
  <2>1. last + 1 \in Exec /\ \A r \in Exec : retryOf'[r] = IF r = last + 1 THEN e ELSE retryOf[r]
    BY <1>1, <1>3, BoundsAssumption DEF CreateExecution, Exec
  <2> QED
    BY <1>1, <2>1, BudgetSpent
<1> QED
  BY <1>2, <1>3 DEF MaybeRetry

\* Every step keeps the budget of every execution.
LEMMA BudgetStep ==
  ASSUME TypeOK, ClaimInv, ReaperInv, Budget, [Next]_vars
  PROVE  Budget'
<1> USE DEF Goto, Drop, workerVars, apiVars
<1>1. /\ pc \in [Worker -> WorkerPc] /\ held \in [Worker -> 0..last] /\ stale \in [Worker -> SUBSET Exec]
      /\ last \in Nat /\ \A w \in Worker : stale[w] \subseteq Exec
      /\ \A w \in Worker : pc[w] \in {"post", "reaped"} => held[w] \in 1..last /\ held[w] \in Exec
  BY BoundsAssumption DEF TypeOK, WorkersOK, RowsOK, Exec, Holding
<1>2. ASSUME UNCHANGED <<pc, held, stale>>, \A r \in Exec : retryOf'[r] \in {retryOf[r], 0} PROVE Budget'
  BY <1>2, MayAsBefore, BudgetKept
<1>3. ASSUME Api PROVE Budget'
  <2>1. UNCHANGED <<pc, held, stale>>
    BY <1>3 DEF Api, EnqueueRun, ToggleJob, CancelRead, CancelCommit
  <2>2. \A r \in Exec : retryOf'[r] \in {retryOf[r], 0}
    BY <1>3 DEF Api, EnqueueRun, ToggleJob, CancelRead, CancelCommit, CreateExecution, rowVars, TypeOK, RowsOK
  <2> QED
    BY <1>2, <2>1, <2>2
<1>4. ASSUME NEW w \in Worker, Step(w) PROVE Budget'
  <2>1. CASE ClaimLock(w) \/ NothingQueued(w) \/ OrchestrateNothing(w) \/ Restart(w)
    <3>1. /\ \A v \in Worker \ {w} : pc'[v] = pc[v] /\ held'[v] = held[v] /\ stale'[v] = stale[v]
          /\ pc'[w] \in {"claim", "orch", "poll"} /\ stale' = stale /\ retryOf' = retryOf
      BY <1>1, <2>1 DEF ClaimLock, NothingQueued, OrchestrateNothing, Restart, rowVars
    <3>2. MayKept
      BY <3>1, MayByStep DEF Executing, ReaperMay
    <3> QED
      BY <3>1, <3>2, BudgetKept
  <2>2. CASE ClaimCommit(w) \/ PrepareFails(w) \/ Prepared(w) \/ Finish(w)
    <3>1. /\ \A v \in Worker \ {w} : pc'[v] = pc[v] /\ held'[v] = held[v] /\ stale'[v] = stale[v]
          /\ pc[w] \in {"claim", "prep", "fin"} /\ stale' = stale /\ retryOf' = retryOf
          /\ pc'[w] = "orch" \/ (pc'[w] \in {"prep", "run", "post"} /\ held' = held)
      BY <1>1, <2>2 DEF ClaimCommit, PrepareFails, Prepared, Finish, rowVars
    <3>2. OwnerMay(held[w])
      BY <3>1 DEF OwnerMay, ClaimInv, Executing
    <3>3. MayKept
      BY <3>1, <3>2, MayByStep DEF Executing, ReaperMay
    <3> QED
      BY <3>1, <3>3, BudgetKept
  <2>3. CASE AfterRun(w)
    <3>1. /\ \A v \in Worker \ {w} : pc'[v] = pc[v] /\ held'[v] = held[v] /\ stale'[v] = stale[v]
          /\ pc[w] = "post" /\ pc'[w] = "orch" /\ stale' = stale /\ MaybeRetry(held[w])
      BY <1>1, <2>3 DEF AfterRun
    <3>2. MayKept
      BY <3>1, MayByStep DEF Executing, ReaperMay
    <3>3. PICK e \in 1..last : e = held[w] /\ e \in Exec
      BY <1>1, <3>1
    <3>4. OwnerMay(e) /\ MaybeRetry(e)
      BY <3>1, <3>3 DEF OwnerMay
    <3>5. status'[e] \notin {"absent", "queued"}
      BY <3>1, <3>3, NeverRequeued DEF ClaimInv, TypeOK, RowsOK
    <3>6. \A v \in Worker : ~(pc'[v] \in {"post"} \union Executing /\ held'[v] = e)
      BY <3>1, <3>3 DEF ClaimInv, Owning, Executing
    <3>7. ~OwnerMay(e)'
      BY <3>5, <3>6 DEF OwnerMay
    <3> QED
      BY <3>2, <3>4, <3>7, RetrySpends
  <2>4. CASE ReapSelect(w)
    <3>1. /\ \A v \in Worker \ {w} : pc'[v] = pc[v] /\ held'[v] = held[v] /\ stale'[v] = stale[v]
          /\ pc'[w] = "reap" /\ retryOf' = retryOf
          /\ \A e \in stale'[w] : status[e] = "running"
      BY <1>1, <2>4 DEF ReapSelect, Expired, rowVars
    <3>2. MayKept
      BY <3>1, MayByStep DEF Executing, ReaperMay
    <3> QED
      BY <3>1, <3>2, BudgetKept
  <2>5. CASE ReapFail(w)
    <3>1. /\ \A v \in Worker \ {w} : pc'[v] = pc[v] /\ held'[v] = held[v] /\ stale'[v] = stale[v]
          /\ pc'[w] = "reaped" /\ retryOf' = retryOf
          /\ stale'[w] \subseteq stale[w] /\ held'[w] \in stale[w]
      BY <1>1, <2>5 DEF ReapFail
    <3>2. MayKept
      BY <3>1, MayByStep DEF Executing, ReaperMay
    <3> QED
      BY <3>1, <3>2, BudgetKept
  <2>6. CASE ReapRetry(w)
    <3>1. /\ \A v \in Worker \ {w} : pc'[v] = pc[v] /\ held'[v] = held[v] /\ stale'[v] = stale[v]
          /\ pc[w] = "reaped" /\ pc'[w] \in {"poll", "reap"} /\ stale' = stale /\ MaybeRetry(held[w])
      BY <1>1, <2>6 DEF ReapRetry
    <3>2. MayKept
      BY <3>1, MayByStep DEF Executing, ReaperMay
    <3>3. PICK e \in 1..last : e = held[w] /\ e \in Exec
      BY <1>1, <3>1
    <3>4. ReaperMay(e) /\ MaybeRetry(e)
      BY <3>1, <3>3 DEF ReaperMay
    <3>5. status'[e] \in Ended
      BY <3>1, <3>3, EndsKept DEF ReaperInv
    <3>6. \A v \in Worker : ~(e \in stale'[v] \/ (pc'[v] = "reaped" /\ held'[v] = e))
      BY <3>1, <3>3 DEF ReaperInv, Reaping
    <3>7. ~ReaperMay(e)'
      BY <3>5, <3>6 DEF ReaperMay, Ended
    <3> QED
      BY <3>2, <3>4, <3>7, RetrySpends
  <2> QED
    BY <1>4, <2>1, <2>2, <2>3, <2>4, <2>5, <2>6 DEF Step
<1>5. ASSUME NEW w \in Worker, ProcessExits(w) \/ HeartbeatTimeout(w) \/ HeartbeatCancel(w) \/ Crash(w) PROVE Budget'
  <2>1. /\ \A v \in Worker \ {w} : pc'[v] = pc[v] /\ held'[v] = held[v] /\ stale'[v] = stale[v]
        /\ stale'[w] \subseteq stale[w] /\ retryOf' = retryOf
        /\ pc'[w] = "down" \/ (pc[w] = "run" /\ pc'[w] = "fin" /\ held' = held)
    BY <1>1, <1>5 DEF ProcessExits, HeartbeatTimeout, HeartbeatCancel, Returns, TouchLease, Crash, rowVars
  <2>2. MayKept
    BY <2>1, MayByStep DEF Executing, OwnerMay, ReaperMay
  <2> QED
    BY <2>1, <2>2, BudgetKept
<1>6. ASSUME (\E w \in Worker : Heartbeat(w)) \/ (\E e \in Exec : LeaseExpires(e)) PROVE Budget'
  BY <1>2, <1>6 DEF Heartbeat, LeaseExpires, TouchLease
<1>7. CASE UNCHANGED vars
  BY <1>2, <1>7 DEF vars, rowVars
<1> QED
  BY <1>3, <1>4, <1>5, <1>6, <1>7 DEF Next

\* A budget of two leaves no room for a third retry.
LEMMA BudgetBounds ==
  ASSUME TypeOK, Budget
  PROVE  RetriedTwiceAtMost
<1> SUFFICES ASSUME NEW e \in 1..last
             PROVE  Cardinality(Retries(e)) <= 2
  BY DEF RetriedTwiceAtMost
<1>1. e \in Exec /\ Retries(e) \subseteq Exec /\ \A r \in Retries(e) : retryOf[r] = e
  BY BoundsAssumption DEF TypeOK, RowsOK, Retries, Exec
<1>2. \A r, s, t \in Retries(e) : r = s \/ s = t \/ r = t
  BY <1>1 DEF Budget
<1>3. CASE Retries(e) = {}
  BY <1>3, FS_EmptySet
<1>4. CASE Retries(e) # {}
  <2>1. PICK r \in Retries(e) : TRUE
    BY <1>4
  <2>2. PICK s \in Retries(e) : Retries(e) \subseteq {r, s}
    BY <1>2, <2>1
  <2>3. IsFiniteSet({r}) /\ Cardinality({r}) = 1
    BY FS_Singleton
  <2>4. IsFiniteSet({r} \union {s}) /\ Cardinality({r} \union {s}) <= 2
    BY <2>3, FS_AddElement
  <2>5. Cardinality(Retries(e)) <= Cardinality({r} \union {s}) /\ Cardinality(Retries(e)) \in Nat /\ Cardinality({r} \union {s}) \in Nat
    <3>1. Retries(e) \subseteq {r} \union {s}
      BY <2>2
    <3> QED
      BY <2>4, <3>1, FS_Subset, FS_CardinalityType
  <2> QED
    BY <2>4, <2>5
<1> QED
  BY <1>3, <1>4

\* Whatever stalls, crashes or is cancelled, an execution has two retries at most: with retry_count, what
\* a run that was asked for once can start is bounded.
THEOREM StallsRetryTwice == Spec => []RetriedTwiceAtMost
<1>1. Init => ClaimInv /\ ReaperInv /\ Budget
  BY DEF Init, ClaimInv, ReaperInv, Budget, Owning, Executing, Reaping, Exec
<1>2. TypeOK /\ ClaimInv /\ ReaperInv /\ Budget /\ [Next]_vars => (ClaimInv /\ ReaperInv /\ Budget)'
  BY ClaimStep, ReaperStep, BudgetStep
<1>3. TypeOK /\ Budget => RetriedTwiceAtMost
  BY BudgetBounds
<1>4. QED
  BY <1>1, <1>2, <1>3, TypeCorrect, PTL DEF Spec

-----------------------------------------------------------------------------
(* The retries, when no worker stalls past its lease *)

\* Worker w has e in its hands, or in the selection of its reaper: what follows a failure of e is
\* for w to decide.
Decides(w, e) == (pc[w] \in Owning \union {"reaped"} /\ held[w] = e) \/ e \in stale[w]

\* One worker at most decides, once, and nobody retried the execution yet; one reaper at a time
\* has rows selected.
DecidesAlone ==
  /\ \A v, w \in Worker : \A e \in Exec : Decides(v, e) /\ Decides(w, e) => v = w
  /\ \A w \in Worker : pc[w] = "reaped" => held[w] \notin stale[w]
  /\ \A w \in Worker : stale[w] # {} => pc[w] \in Reaping
  /\ \A v, w \in Worker : pc[v] \in Reaping /\ pc[w] \in Reaping => v = w
Undecided == \A w \in Worker : \A e \in Exec : Decides(w, e) => \A r \in Exec : retryOf[r] # e

\* Started and not ended yet, or cancelled by a request that raced with the claim or the reaper.
Underway(e) == status[e] = "running" \/ (status[e] = "cancelled" /\ e \in Cancellable)
\* A lease is live while somebody works, so the reaper selects what nobody works on; what is
\* decided about has ended.
UnderwayInv ==
  /\ \A w \in Worker : pc[w] \in Executing => lease[held[w]] = "live" /\ Underway(held[w])
  /\ \A w \in Worker : \A e \in stale[w] : Underway(e)
  /\ \A w \in Worker : pc[w] \in {"post", "reaped"} => status[held[w]] \in Ended
  /\ apiExec # 0 => apiExec \in Cancellable

RetriesInv ==
  \A r \in Exec : retryOf[r] # 0 =>
    /\ r <= last /\ retryOf[r] \in Exec /\ status[retryOf[r]] \in Ended
    /\ \A s \in Exec : retryOf[s] = retryOf[r] => s = r
    /\ attempt[r] = attempt[retryOf[r]] + 1 /\ attempt[r] <= RetryCount + 1

\* What makes each retry the only one, and later than the end of what it retries.
Orderly == DecidesAlone /\ Undecided /\ UnderwayInv /\ RetriesInv

\* A step that gives nobody an execution to decide about ...
FewerDecide ==
  \A v \in Worker :
    /\ \A e \in Exec : Decides(v, e)' => Decides(v, e)
    /\ pc'[v] = "reaped" => held'[v] \notin stale'[v]
    /\ stale'[v] # {} => pc'[v] \in Reaping
    /\ pc'[v] \in Reaping => pc[v] \in Reaping
\* ... and one that adds no row and reopens none.
NoRowAdded ==
  /\ last' = last /\ attempt' = attempt /\ retryOf' = retryOf
  /\ \A e \in Exec : status[e] \in Ended => status'[e] \in Ended

LEMMA AloneKept ==
  ASSUME DecidesAlone, FewerDecide
  PROVE  DecidesAlone'
  BY DEF DecidesAlone, FewerDecide

LEMMA RetriesKept ==
  ASSUME Undecided, RetriesInv, FewerDecide, NoRowAdded
  PROVE  Undecided' /\ RetriesInv'
<1>1. Undecided'
  BY DEF Undecided, FewerDecide, NoRowAdded
<1>2. RetriesInv'
  BY DEF RetriesInv, NoRowAdded, Exec
<1> QED
  BY <1>1, <1>2

\* A new row: asked for, or the retry of a failed execution that w decided about and no longer does.
LEMMA RetryAdded ==
  ASSUME RowsOK, WorkersOK, Undecided, RetriesInv, FewerDecide,
         NEW n \in Nat, NEW p \in 0..last, CreateExecution(n, p),
         p # 0 => /\ status[p] = "failed" /\ n = attempt[p] + 1 /\ attempt[p] <= RetryCount
                  /\ \E w \in Worker : Decides(w, p)
                  /\ \A w \in Worker : ~Decides(w, p)'
  PROVE  Undecided' /\ RetriesInv'
<1> USE BoundsAssumption DEF Exec
<1>1. /\ last \in Nat /\ last + 1 \in Exec /\ last' = last + 1 /\ p \in 0..MaxExec /\ p # last + 1
      /\ \A e \in Exec : /\ status'[e] = IF e = last + 1 THEN "queued" ELSE status[e]
                         /\ retryOf'[e] = IF e = last + 1 THEN p ELSE retryOf[e]
                         /\ attempt'[e] = IF e = last + 1 THEN n ELSE attempt[e]
  BY DEF RowsOK, CreateExecution
<1>2. \A r \in Exec : retryOf[r] # 0 => r # last + 1 /\ retryOf[r] # last + 1
  BY <1>1 DEF RowsOK, RetriesInv
<1>3. p # 0 => \A r \in Exec : retryOf[r] # p
  BY <1>1 DEF Undecided
<1>4. Undecided'
  <2> SUFFICES ASSUME NEW w \in Worker, NEW e \in Exec, Decides(w, e)', NEW r \in Exec
               PROVE  retryOf'[r] # e
    BY DEF Undecided
  <2>1. Decides(w, e) /\ e # p
    BY DEF FewerDecide
  <2> QED
    BY <1>1, <2>1 DEF Undecided
<1>5. RetriesInv'
  <2> SUFFICES ASSUME NEW r \in Exec, retryOf'[r] # 0
               PROVE  /\ r <= last' /\ retryOf'[r] \in Exec /\ status'[retryOf'[r]] \in Ended
                      /\ \A s \in Exec : retryOf'[s] = retryOf'[r] => s = r
                      /\ attempt'[r] = attempt'[retryOf'[r]] + 1 /\ attempt'[r] <= RetryCount + 1
    BY DEF RetriesInv
  <2>1. CASE r = last + 1
    <3>1. p # 0 /\ retryOf'[r] = p /\ status'[p] = "failed" /\ attempt'[p] = attempt[p] /\ attempt'[r] = n
      BY <1>1, <2>1
    <3>2. attempt[p] \in Nat
      BY <1>1, <3>1 DEF RowsOK
    <3> QED
      BY <1>1, <1>3, <2>1, <3>1, <3>2 DEF Ended
  <2>2. CASE r # last + 1
    <3>1. retryOf'[r] = retryOf[r] /\ attempt'[r] = attempt[r] /\ r <= last
      BY <1>1, <2>2 DEF RetriesInv
    <3>2. retryOf[r] # last + 1 /\ retryOf[r] \in Exec
      BY <1>2, <3>1 DEF RetriesInv
    <3>3. \A s \in Exec : retryOf'[s] = retryOf[r] => s = r
      BY <1>1, <1>3, <2>2, <3>1 DEF RetriesInv
    <3>4. status'[retryOf[r]] = status[retryOf[r]] /\ attempt'[retryOf[r]] = attempt[retryOf[r]]
      BY <1>1, <3>2
    <3> QED
      BY <1>1, <3>1, <3>2, <3>3, <3>4 DEF RetriesInv
  <2> QED
    BY <2>1, <2>2
<1> QED
  BY <1>4, <1>5

\* Worker w takes a step, the other processes do not.
OnlyMoves(w) ==
  \A v \in Worker \ {w} : pc'[v] = pc[v] /\ held'[v] = held[v] /\ stale'[v] = stale[v]

\* A worker that takes no new execution decides about fewer.
LEMMA FewerByStep ==
  ASSUME DecidesAlone, NEW w \in Worker, OnlyMoves(w), stale'[w] \subseteq stale[w],
         pc'[w] \in Owning => pc[w] \in Owning /\ held'[w] = held[w],
         pc'[w] \in Reaping => pc'[w] = "reap" /\ pc[w] \in Reaping,
         stale'[w] # {} => pc'[w] \in Reaping
  PROVE  FewerDecide
<1> SUFFICES ASSUME NEW v \in Worker
             PROVE  /\ \A e \in Exec : Decides(v, e)' => Decides(v, e)
                    /\ pc'[v] = "reaped" => held'[v] \notin stale'[v]
                    /\ stale'[v] # {} => pc'[v] \in Reaping
                    /\ pc'[v] \in Reaping => pc[v] \in Reaping
  BY DEF FewerDecide
<1>1. CASE v = w
  BY <1>1 DEF Decides, Reaping
<1>2. CASE v # w
  BY <1>2 DEF OnlyMoves, Decides, DecidesAlone
<1> QED
  BY <1>1, <1>2

LEMMA FewerAsBefore ==
  ASSUME DecidesAlone, UNCHANGED <<pc, held, stale>>
  PROVE  FewerDecide
  BY DEF FewerDecide, DecidesAlone, Decides

\* What a worker writes to a row it decides about does not concern the others.
LEMMA UnderwayByStep ==
  ASSUME TypeOK, DecidesAlone, UnderwayInv, NEW w \in Worker, OnlyMoves(w), apiExec' = apiExec,
         \A e \in Exec : \/ status'[e] = status[e] /\ lease'[e] = lease[e]
                         \/ Decides(w, e)
                         \/ status[e] = "absent",
         (pc[w] \in Executing => lease[held[w]] = "live" /\ Underway(held[w]))',
         \A e \in stale'[w] : Underway(e)',
         pc'[w] \in {"post", "reaped"} => status'[held'[w]] \in Ended
  PROVE  UnderwayInv'
<1> SUFFICES ASSUME NEW v \in Worker
             PROVE  /\ (pc[v] \in Executing => lease[held[v]] = "live" /\ Underway(held[v]))'
                    /\ \A e \in stale'[v] : Underway(e)'
                    /\ pc'[v] \in {"post", "reaped"} => status'[held'[v]] \in Ended
  BY DEF UnderwayInv
<1>1. CASE v = w
  BY <1>1
<1>2. CASE v # w
  <2>1. pc'[v] = pc[v] /\ held'[v] = held[v] /\ stale'[v] = stale[v]
    BY <1>2 DEF OnlyMoves
  <2>2. ASSUME NEW e \in Exec, Decides(v, e), status[e] # "absent"
        PROVE  status'[e] = status[e] /\ lease'[e] = lease[e]
    BY <1>2, <2>2 DEF DecidesAlone
  <2>3. (pc[v] \in Owning \union {"reaped"} => held[v] \in Exec) /\ stale[v] \subseteq Exec
    BY BoundsAssumption DEF TypeOK, RowsOK, WorkersOK, Owning, Holding, Executing, Exec
  <2>4. ASSUME pc[v] \in Executing
        PROVE  (lease[held[v]] = "live" /\ Underway(held[v]))'
    <3>1. held[v] \in Exec /\ Decides(v, held[v]) /\ status[held[v]] # "absent"
      BY <2>3, <2>4 DEF Decides, Owning, UnderwayInv, Underway
    <3> QED
      BY <2>1, <2>2, <2>4, <3>1 DEF UnderwayInv, Underway
  <2>5. ASSUME NEW e \in stale[v]
        PROVE  Underway(e)'
    <3>1. e \in Exec /\ Decides(v, e) /\ status[e] # "absent"
      BY <2>3 DEF Decides, UnderwayInv, Underway
    <3> QED
      BY <2>2, <3>1 DEF UnderwayInv, Underway
  <2>6. ASSUME pc[v] \in {"post", "reaped"}
        PROVE  status'[held[v]] \in Ended
    <3>1. held[v] \in Exec /\ Decides(v, held[v]) /\ status[held[v]] # "absent"
      BY <2>3, <2>6 DEF Decides, Owning, UnderwayInv, Ended
    <3> QED
      BY <2>2, <2>6, <3>1 DEF UnderwayInv
  <2> QED
    BY <2>1, <2>4, <2>5, <2>6
<1> QED
  BY <1>1, <1>2

\* The API and time do not end what is underway, reopen what ended, or take a lease from a worker.
LEMMA UnderwayByRows ==
  ASSUME TypeOK, UnderwayInv, UNCHANGED <<pc, held, stale>>, apiExec' # 0 => apiExec' \in Cancellable,
         \A e \in Exec : (Underway(e) => Underway(e)') /\ (status[e] \in Ended => status'[e] \in Ended),
         \A w \in Worker : pc[w] \in Executing => lease'[held[w]] = lease[held[w]]
  PROVE  UnderwayInv'
<1>1. /\ \A w \in Worker : pc[w] \in Owning \union {"reaped"} => held[w] \in Exec
      /\ \A w \in Worker : stale[w] \subseteq Exec
  BY BoundsAssumption DEF TypeOK, RowsOK, WorkersOK, Owning, Holding, Executing, Exec
<1> QED
  BY <1>1 DEF UnderwayInv, Owning

\* A worker goes on with its execution, or gives it up, and writes no row but that one.
LEMMA OrderlyByStep ==
  ASSUME TypeOK, Orderly, NoRowAdded, NEW w \in Worker, OnlyMoves(w), apiExec' = apiExec,
         stale'[w] = {}, pc'[w] \notin Reaping,
         pc'[w] \in Owning => pc[w] \in Owning /\ held'[w] = held[w],
         \A e \in Exec : \/ status'[e] = status[e] /\ lease'[e] = lease[e]
                         \/ Decides(w, e),
         (pc[w] \in Executing => lease[held[w]] = "live" /\ Underway(held[w]))',
         pc'[w] = "post" => status'[held'[w]] \in Ended
  PROVE  Orderly'
<1>1. FewerDecide
  BY FewerByStep DEF Orderly
<1>2. UnderwayInv'
  BY UnderwayByStep DEF Orderly, Reaping
<1> QED
  BY <1>1, <1>2, AloneKept, RetriesKept DEF Orderly

\* Worker w retries the execution it decided about, or does not, and is done with it.
LEMMA RetryDecided ==
  ASSUME TypeOK, Orderly, FewerDecide, NEW w \in Worker, OnlyMoves(w), apiExec' = apiExec, stale' = stale,
         NEW e \in Exec, Decides(w, e), MaybeRetry(e), \A v \in Worker : ~Decides(v, e)',
         pc'[w] \notin Executing \union {"post", "reaped"}
  PROVE  Undecided' /\ RetriesInv' /\ UnderwayInv'
<1>1. DecidesAlone /\ Undecided /\ UnderwayInv /\ RetriesInv /\ RowsOK /\ WorkersOK
  BY DEF Orderly, TypeOK
<1>2. CASE RetryApplies(e) /\ CreateExecution(attempt[e] + 1, e)
  <2>1. attempt[e] + 1 \in Nat /\ e \in 0..last /\ e # 0 /\ status[e] = "failed"
        /\ attempt[e] <= RetryCount
    BY <1>1, <1>2 DEF RowsOK, WorkersOK, RetryApplies, Exec
  <2>2. Undecided' /\ RetriesInv'
    BY <1>1, <1>2, <2>1, RetryAdded
  <2>3. \A f \in Exec : status[f] # "absent" => status'[f] = status[f] /\ lease'[f] = lease[f]
    BY <1>1, <1>2, BoundsAssumption DEF CreateExecution, RowsOK, Exec
  <2>4. \A f \in stale'[w] : Underway(f)'
    BY <1>1, <2>3, ReferencesExist DEF UnderwayInv, Underway
  <2> QED
    BY <1>1, <2>2, <2>3, <2>4, UnderwayByStep DEF Executing
<1>3. CASE UNCHANGED rowVars
  <2>1. NoRowAdded /\ UNCHANGED <<status, lease>>
    BY <1>3 DEF rowVars, NoRowAdded
  <2>2. UnderwayInv'
    BY <1>1, <2>1, UnderwayByStep DEF UnderwayInv, Underway
  <2> QED
    BY <1>1, <2>1, <2>2, RetriesKept
<1> QED
  BY <1>2, <1>3 DEF MaybeRetry

\* Every step of the API, the workers and time keeps the retries orderly, when no worker stalls.
LEMMA OrderlyStep ==
  ASSUME SlowWorker = {}, TypeOK, ClaimInv, Orderly, [Next]_vars
  PROVE  Orderly'
<1> USE BoundsAssumption DEF Goto, Drop, rowVars, workerVars, apiVars
<1>a. DecidesAlone /\ Undecided /\ UnderwayInv /\ RetriesInv
  BY DEF Orderly
<1>b. /\ \A v \in Worker : pc[v] \in Owning => held[v] \in Exec /\ stale[v] = {} /\ Decides(v, held[v])
      /\ \A v \in Worker : pc[v] = "reaped" => held[v] \in Exec /\ Decides(v, held[v])
      /\ \A v \in Worker : pc[v] \notin Reaping => stale[v] = {}
      /\ status \in [Exec -> Status] /\ lease \in [Exec -> {"none", "live", "expired"}]
      /\ pc \in [Worker -> WorkerPc] /\ held \in [Worker -> Nat] /\ stale \in [Worker -> SUBSET Exec]
      /\ outcome \in [Worker -> Ended \union {"none"}] /\ \A v \in Worker : pc[v] = "fin" => outcome[v] \in Ended
  <2>1. TypeOK /\ last \in Nat /\ 1..last \subseteq Exec /\ 0..last \subseteq Nat
    BY DEF TypeOK, RowsOK, Exec
  <2>2. \A v \in Worker : pc[v] \in Owning => held[v] \in Exec /\ stale[v] = {} /\ Decides(v, held[v])
    BY <1>a, ReferencesExist DEF DecidesAlone, Decides, Owning, Executing, Reaping
  <2>3. \A v \in Worker : pc[v] = "reaped" => held[v] \in Exec /\ Decides(v, held[v])
    BY <2>1 DEF TypeOK, WorkersOK, Holding, Executing, Decides
  <2> QED
    BY <1>a, <2>1, <2>2, <2>3 DEF TypeOK, RowsOK, WorkersOK, DecidesAlone
<1>c. ASSUME UNCHANGED <<pc, held, stale>>, NoRowAdded, UnderwayInv' PROVE Orderly'
  BY <1>a, <1>c, FewerAsBefore, AloneKept, RetriesKept DEF Orderly
<1>1. ASSUME EnqueueRun PROVE Orderly'
  <2>1. UNCHANGED <<pc, held, stale, apiExec, lease>> /\ CreateExecution(1, 0)
    BY <1>1 DEF EnqueueRun, CreateExecution
  <2>2. FewerDecide
    BY <2>1, <1>a, FewerAsBefore
  <2>3. Undecided' /\ RetriesInv'
    BY <2>1, <2>2, <1>a, RetryAdded DEF TypeOK, RowsOK
  <2>4. \A e \in Exec : status[e] # "absent" => status'[e] = status[e]
    BY <2>1 DEF CreateExecution, TypeOK, RowsOK, Exec
  <2>5. UnderwayInv'
    BY <2>1, <2>4, <1>a, UnderwayByRows DEF UnderwayInv, Underway, Ended
  <2> QED
    BY <2>2, <2>3, <2>5, <1>a, AloneKept DEF Orderly
<1>2. ASSUME ToggleJob PROVE Orderly'
  BY <1>2, <1>a, <1>c, UnderwayByRows DEF ToggleJob, NoRowAdded, UnderwayInv, Underway
<1>3. ASSUME NEW e \in Exec, CancelRead(e) PROVE Orderly'
  BY <1>3, <1>a, <1>c, UnderwayByRows DEF CancelRead, NoRowAdded, Underway
<1>4. ASSUME CancelCommit PROVE Orderly'
  <2>1. /\ UNCHANGED <<pc, held, stale, lease, last, attempt, retryOf>> /\ apiExec' = 0
        /\ apiExec \in Cancellable
        /\ \A e \in Exec : status'[e] = status[e] \/ (e = apiExec /\ status'[e] = "cancelled")
    BY <1>4, <1>a, <1>b DEF CancelCommit, UnderwayInv
  <2>2. NoRowAdded
    BY <2>1 DEF NoRowAdded, Ended
  <2>3. UnderwayInv'
    BY <2>1, <1>a, UnderwayByRows DEF Underway, Ended
  <2> QED
    BY <2>1, <2>2, <2>3, <1>c
<1>5. ASSUME NEW w \in Worker, ClaimLock(w) PROVE Orderly'
  <2>1. /\ OnlyMoves(w) /\ pc[w] = "poll" /\ pc'[w] = "claim" /\ stale' = stale /\ stale[w] = {}
        /\ held'[w] \in Exec /\ status[held'[w]] = "queued" /\ ~Locked(held'[w])
        /\ UNCHANGED <<status, lease, last, attempt, retryOf, apiExec>>
    BY <1>5, <1>b DEF ClaimLock, OnlyMoves, Claimable, Reaping
  <2>2. \A v \in Worker : ~Decides(v, held'[w])
    BY <2>1, <1>a DEF Decides, Locked, ClaimInv, Owning, UnderwayInv, Underway, Ended
  <2>3. /\ \A v \in Worker \ {w}, e \in Exec : Decides(v, e)' <=> Decides(v, e)
        /\ \A e \in Exec : Decides(w, e)' => e = held'[w]
    BY <2>1 DEF OnlyMoves, Decides
  <2>4. DecidesAlone'
    BY <2>1, <2>2, <2>3, <1>a DEF DecidesAlone, OnlyMoves, Reaping, Decides
  <2>5. Undecided' /\ RetriesInv'
    BY <2>1, <2>3, <1>a DEF Undecided, RetriesInv, Exec, Ended
  <2>6. UnderwayInv'
    BY <2>1, <1>a, UnderwayByStep DEF Executing
  <2> QED
    BY <2>4, <2>5, <2>6 DEF Orderly
<1>6. ASSUME NEW w \in Worker, ClaimCommit(w) PROVE Orderly'
  <2>1. /\ OnlyMoves(w) /\ pc[w] = "claim" /\ pc'[w] = "prep" /\ held' = held /\ stale' = stale
        /\ UNCHANGED <<last, attempt, retryOf, apiExec>>
        /\ \A e \in Exec : /\ status'[e] = IF e = held[w] THEN "running" ELSE status[e]
                           /\ lease'[e] = IF e = held[w] THEN "live" ELSE lease[e]
    BY <1>6, <1>b DEF ClaimCommit, OnlyMoves
  <2>2. held[w] \in Exec /\ stale[w] = {} /\ Decides(w, held[w]) /\ status[held[w]] = "queued"
    BY <2>1, <1>b DEF Owning, ClaimInv
  <2>3. NoRowAdded
    BY <2>1, <2>2 DEF NoRowAdded, Ended
  <2> QED
    BY <2>1, <2>2, <2>3, OrderlyByStep DEF Owning, Executing, Reaping, Underway
<1>7. ASSUME NEW w \in Worker, NothingQueued(w) PROVE Orderly'
  <2>1. /\ OnlyMoves(w) /\ pc[w] = "poll" /\ pc'[w] = "orch" /\ UNCHANGED <<rowVars, held, stale, apiExec>>
        /\ stale[w] = {}
    BY <1>7, <1>b DEF NothingQueued, OnlyMoves, Reaping
  <2> QED
    BY <2>1, OrderlyByStep DEF NoRowAdded, Owning, Executing, Reaping
<1>8. ASSUME NEW w \in Worker, PrepareFails(w) PROVE Orderly'
  <2>1. /\ OnlyMoves(w) /\ pc[w] = "prep" /\ pc'[w] = "orch" /\ UNCHANGED <<stale, apiExec>>
        /\ UNCHANGED <<last, attempt, retryOf, lease>> /\ stale[w] = {} /\ Decides(w, held[w])
        /\ \A e \in Exec : status'[e] = IF e = held[w] THEN "failed" ELSE status[e]
    BY <1>8, <1>b DEF PrepareFails, OnlyMoves, Owning, Executing
  <2>2. NoRowAdded
    BY <2>1 DEF NoRowAdded, Ended
  <2> QED
    BY <2>1, <2>2, OrderlyByStep DEF Owning, Executing, Reaping
<1>9. ASSUME NEW w \in Worker, Prepared(w) PROVE Orderly'
  <2>1. /\ OnlyMoves(w) /\ pc[w] = "prep" /\ pc'[w] = "run" /\ UNCHANGED <<rowVars, held, stale, apiExec>>
        /\ stale[w] = {}
    BY <1>9, <1>b DEF Prepared, OnlyMoves, Owning, Executing
  <2> QED
    BY <2>1, <1>a, OrderlyByStep DEF NoRowAdded, Owning, Executing, Reaping, UnderwayInv, Underway
<1>10. ASSUME NEW w \in Worker, Finish(w) PROVE Orderly'
  <2>1. /\ OnlyMoves(w) /\ pc[w] = "fin" /\ pc'[w] = "post" /\ UNCHANGED <<held, stale, apiExec>>
        /\ UNCHANGED <<last, attempt, retryOf>> /\ stale[w] = {} /\ outcome[w] \in Ended
        /\ held[w] \in Exec /\ Decides(w, held[w])
        /\ \A e \in Exec : /\ status'[e] = IF e = held[w] THEN outcome[w] ELSE status[e]
                           /\ lease'[e] = IF e = held[w] THEN "none" ELSE lease[e]
    BY <1>10, <1>b DEF Finish, OnlyMoves, Owning, Executing
  <2>2. NoRowAdded
    BY <2>1 DEF NoRowAdded
  <2> QED
    BY <2>1, <2>2, OrderlyByStep DEF Owning, Executing, Reaping
<1>11. ASSUME NEW w \in Worker, AfterRun(w) PROVE Orderly'
  <2>1. /\ OnlyMoves(w) /\ pc[w] = "post" /\ pc'[w] = "orch" /\ held'[w] = 0 /\ UNCHANGED <<stale, apiExec>>
        /\ stale[w] = {} /\ held[w] \in Exec /\ Decides(w, held[w]) /\ MaybeRetry(held[w])
    BY <1>11, <1>b DEF AfterRun, OnlyMoves, Owning
  <2>2. FewerDecide
    BY <2>1, <1>a, FewerByStep DEF Owning, Executing, Reaping
  <2>3. PICK e \in Exec : e = held[w]
    BY <2>1
  <2>4. \A v \in Worker : ~Decides(v, e)'
    BY <2>1, <2>2, <2>3, <1>a DEF FewerDecide, DecidesAlone, Decides, Owning, Executing
  <2>5. Undecided' /\ RetriesInv' /\ UnderwayInv'
    BY <2>1, <2>2, <2>3, <2>4, <1>a, RetryDecided DEF Executing
  <2> QED
    BY <2>2, <2>5, <1>a, AloneKept DEF Orderly
<1>12. ASSUME NEW w \in Worker, ReapSelect(w) PROVE Orderly'
  <2>1. /\ OnlyMoves(w) /\ pc[w] = "orch" /\ pc'[w] = "reap" /\ held' = held
        /\ stale'[w] = Expired /\ LockFree
        /\ UNCHANGED <<rowVars, apiExec>>
    BY <1>12, <1>b DEF ReapSelect, OnlyMoves
  <2>2. \A v \in Worker, e \in Expired : ~Decides(v, e)
    BY <2>1, <1>a, <1>b DEF Decides, Expired, LockFree, ClaimInv, Owning, UnderwayInv, Reaping, Ended
  <2>3. /\ \A v \in Worker \ {w}, e \in Exec : Decides(v, e)' <=> Decides(v, e)
        /\ \A e \in Exec : Decides(w, e)' => e \in Expired
    BY <2>1 DEF OnlyMoves, Decides, Owning, Executing
  <2>4. DecidesAlone'
    BY <2>1, <2>2, <2>3, <1>a DEF DecidesAlone, OnlyMoves, Reaping, LockFree
  <2>5. Undecided' /\ RetriesInv'
    <3>1. RetriesInv'
      BY <2>1, <1>a DEF RetriesInv
    <3>2. \A e \in Expired, r \in Exec : retryOf[r] # e
      BY <1>a DEF Expired, RetriesInv, Ended, Exec
    <3> QED
      BY <2>1, <2>3, <3>1, <3>2, <1>a DEF Undecided
  <2>6. UnderwayInv'
    BY <2>1, <1>a, UnderwayByStep DEF Executing, Expired, Underway
  <2> QED
    BY <2>4, <2>5, <2>6 DEF Orderly
<1>13. ASSUME NEW w \in Worker, OrchestrateNothing(w) PROVE Orderly'
  <2>1. /\ OnlyMoves(w) /\ pc[w] = "orch" /\ pc'[w] = "poll" /\ UNCHANGED <<rowVars, held, stale, apiExec>>
        /\ stale[w] = {}
    BY <1>13, <1>b DEF OrchestrateNothing, OnlyMoves, Reaping
  <2> QED
    BY <2>1, OrderlyByStep DEF NoRowAdded, Owning, Executing, Reaping
<1>14. ASSUME NEW w \in Worker, ReapFail(w) PROVE Orderly'
  <2>1. PICK e \in stale[w] : /\ status' = [status EXCEPT ![e] = "failed"]
                             /\ lease' = [lease EXCEPT ![e] = "none"]
                             /\ held' = [held EXCEPT ![w] = e]
                             /\ stale' = [stale EXCEPT ![w] = @ \ {e}]
    BY <1>14 DEF ReapFail
  <2>2. /\ OnlyMoves(w) /\ pc[w] = "reap" /\ pc'[w] = "reaped" /\ held'[w] = e /\ stale'[w] = stale[w] \ {e}
        /\ UNCHANGED <<last, attempt, retryOf, apiExec>> /\ e \in Exec /\ Decides(w, e)
        /\ \A f \in Exec : /\ status'[f] = IF f = e THEN "failed" ELSE status[f]
                           /\ lease'[f] = IF f = e THEN "none" ELSE lease[f]
    BY <1>14, <2>1, <1>b DEF ReapFail, OnlyMoves, Decides, Reaping
  <2>3. \A v \in Worker, f \in Exec : Decides(v, f)' => Decides(v, f)
    BY <2>2 DEF OnlyMoves, Decides
  <2>4. FewerDecide
    BY <2>2, <2>3, <1>a DEF FewerDecide, DecidesAlone, OnlyMoves, Reaping
  <2>5. NoRowAdded
    BY <2>2 DEF NoRowAdded, Ended
  <2>6. UnderwayInv'
    BY <2>2, <1>a, <1>b, UnderwayByStep DEF UnderwayInv, Underway, Executing, Ended, Reaping
  <2> QED
    BY <2>4, <2>5, <2>6, <1>a, AloneKept, RetriesKept DEF Orderly
<1>15. ASSUME NEW w \in Worker, ReapRetry(w) PROVE Orderly'
  <2>1. /\ OnlyMoves(w) /\ pc[w] = "reaped" /\ held'[w] = 0 /\ UNCHANGED <<stale, apiExec>>
        /\ pc'[w] = (IF stale[w] = {} THEN "poll" ELSE "reap")
        /\ held[w] \in Exec /\ Decides(w, held[w]) /\ MaybeRetry(held[w])
    BY <1>15, <1>b DEF ReapRetry, OnlyMoves
  <2>2. FewerDecide
    BY <2>1, <1>a, FewerByStep DEF Owning, Executing, Reaping
  <2>3. PICK e \in Exec : e = held[w]
    BY <2>1
  <2>4. \A v \in Worker : ~Decides(v, e)'
    BY <2>1, <2>2, <2>3, <1>a DEF FewerDecide, DecidesAlone, Decides, Owning, Executing
  <2>5. Undecided' /\ RetriesInv' /\ UnderwayInv'
    BY <2>1, <2>2, <2>3, <2>4, <1>a, RetryDecided DEF Executing
  <2> QED
    BY <2>2, <2>5, <1>a, AloneKept DEF Orderly
<1>16. ASSUME NEW w \in Worker, Restart(w) PROVE Orderly'
  <2>1. /\ OnlyMoves(w) /\ pc[w] = "down" /\ pc'[w] = "poll" /\ UNCHANGED <<rowVars, held, stale, apiExec>>
        /\ stale[w] = {}
    BY <1>16, <1>b DEF Restart, OnlyMoves, Reaping
  <2> QED
    BY <2>1, OrderlyByStep DEF NoRowAdded, Owning, Executing, Reaping
<1>17. ASSUME NEW w \in Worker, ProcessExits(w) PROVE Orderly'
  <2>1. /\ OnlyMoves(w) /\ pc[w] = "run" /\ pc'[w] = "fin" /\ UNCHANGED <<rowVars, held, stale, apiExec>>
        /\ stale[w] = {}
    BY <1>17, <1>b DEF ProcessExits, Returns, OnlyMoves, Owning, Executing
  <2> QED
    BY <2>1, <1>a, OrderlyByStep DEF NoRowAdded, Owning, Executing, Reaping, UnderwayInv, Underway
<1>18. ASSUME NEW w \in Worker, HeartbeatTimeout(w) PROVE Orderly'
  <2>1. /\ OnlyMoves(w) /\ pc[w] = "run" /\ pc'[w] = "fin" /\ UNCHANGED <<held, stale, apiExec>>
        /\ UNCHANGED <<status, last, attempt, retryOf>> /\ stale[w] = {} /\ held[w] \in Exec /\ Decides(w, held[w])
        /\ \A e \in Exec : lease'[e] = IF e = held[w] THEN "live" ELSE lease[e]
    BY <1>18, <1>b DEF HeartbeatTimeout, Returns, TouchLease, OnlyMoves, Owning, Executing
  <2> QED
    BY <2>1, <1>a, OrderlyByStep DEF NoRowAdded, Owning, Executing, Reaping, UnderwayInv, Underway
<1>19. ASSUME NEW w \in Worker, HeartbeatCancel(w) PROVE Orderly'
  <2>1. /\ OnlyMoves(w) /\ pc[w] = "run" /\ pc'[w] = "fin" /\ UNCHANGED <<held, stale, apiExec>>
        /\ UNCHANGED <<status, last, attempt, retryOf>> /\ stale[w] = {} /\ held[w] \in Exec /\ Decides(w, held[w])
        /\ \A e \in Exec : lease'[e] = IF e = held[w] THEN "live" ELSE lease[e]
    BY <1>19, <1>b DEF HeartbeatCancel, Returns, TouchLease, OnlyMoves, Owning, Executing
  <2> QED
    BY <2>1, <1>a, OrderlyByStep DEF NoRowAdded, Owning, Executing, Reaping, UnderwayInv, Underway
<1>20. ASSUME NEW w \in Worker, Heartbeat(w) PROVE Orderly'
  <2>1. /\ UNCHANGED <<status, last, attempt, retryOf, pc, held, stale, apiExec>>
        /\ pc[w] = "run" /\ stale[w] = {} /\ held[w] \in Exec /\ Decides(w, held[w])
        /\ \A e \in Exec : lease'[e] = IF e = held[w] THEN "live" ELSE lease[e]
    BY <1>20, <1>b DEF Heartbeat, TouchLease, Owning, Executing
  <2> QED
    BY <2>1, <1>a, OrderlyByStep DEF OnlyMoves, NoRowAdded, Owning, Executing, Reaping, UnderwayInv, Underway
<1>21. ASSUME NEW w \in Worker, Crash(w) PROVE Orderly'
  <2>1. /\ OnlyMoves(w) /\ pc'[w] = "down" /\ UNCHANGED <<rowVars, apiExec>> /\ stale'[w] = {}
    BY <1>21, <1>b DEF Crash, OnlyMoves
  <2> QED
    BY <2>1, OrderlyByStep DEF NoRowAdded, Owning, Executing, Reaping
<1>22. ASSUME NEW e \in Exec, LeaseExpires(e) PROVE Orderly'
  <2>1. /\ UNCHANGED <<status, last, attempt, retryOf, pc, held, stale, apiExec>>
        /\ \A f \in Exec \ {e} : lease'[f] = lease[f]
        /\ \A w \in Worker : ~Works(w, e)
    BY <1>22, <1>b DEF LeaseExpires
  <2>2. \A w \in Worker : pc[w] \in Executing => lease'[held[w]] = lease[held[w]]
    BY <2>1, <1>b DEF Works, Owning
  <2> QED
    BY <2>1, <2>2, <1>a, <1>c, UnderwayByRows DEF NoRowAdded, UnderwayInv, Underway
<1>23. CASE UNCHANGED vars
  BY <1>23, <1>a, <1>c, UnderwayByRows DEF vars, NoRowAdded, UnderwayInv, Underway
<1> QED BY <1>1, <1>2, <1>3, <1>4, <1>5, <1>6, <1>7, <1>8, <1>9, <1>10, <1>11, <1>12, <1>13, <1>14, <1>15, <1>16, <1>17, <1>18, <1>19, <1>20, <1>21, <1>22, <1>23 DEF Next, Api, Step

LEMMA OrderlyInit == Init => ClaimInv /\ Orderly
  BY BoundsAssumption
     DEF Init, ClaimInv, Orderly, DecidesAlone, Undecided, UnderwayInv, RetriesInv, Decides, Owning, Executing,
         Reaping, Exec

\* An execution is retried once at most, when its row has ended and nothing runs it, and
\* no more often than retry_count allows: enqueue_retry by the worker that ran it, or by
\* the reaper, through crashes, cancellations and any number of workers none of which stalls.
THEOREM RetriesAreOrderly ==
  ASSUME SlowWorker = {} PROVE Spec => []RetryAfterEnd
<1>1. Init => ClaimInv /\ Orderly
  BY OrderlyInit
<1>2. TypeOK /\ Orderly => RetryAfterEnd
  <2> SUFFICES ASSUME TypeOK, Orderly, NEW r \in 1..last, retryOf[r] # 0
               PROVE  /\ status[retryOf[r]] \in Ended
                      /\ \A w \in Worker : ~Works(w, retryOf[r])
                      /\ \A s \in 1..last : retryOf[s] = retryOf[r] => s = r
                      /\ attempt[r] = attempt[retryOf[r]] + 1 /\ attempt[r] <= RetryCount + 1
    BY DEF RetryAfterEnd
  <2>1. 1..last \subseteq Exec
    BY BoundsAssumption DEF TypeOK, RowsOK, Exec
  <2>2. \A w \in Worker : ~Works(w, retryOf[r])
    BY <2>1 DEF Orderly, Undecided, RetriesInv, Decides, Works, Owning
  <2> QED
    BY <2>1, <2>2 DEF Orderly, RetriesInv
<1>3. TypeOK /\ ClaimInv /\ Orderly /\ [Next]_vars => ClaimInv' /\ Orderly'
  BY ClaimStep, OrderlyStep
<1> QED
  BY <1>1, <1>2, <1>3, TypeCorrect, PTL DEF Spec

-----------------------------------------------------------------------------

LEMMA InsertMaps ==
  ASSUME RowsOK, NEW n, NEW p, CreateExecution(n, p)
  PROVE  last + 1 \in Exec /\ Contract!Insert(last + 1, n, p)
  BY BoundsAssumption DEF RowsOK, Exec, CreateExecution, Contract!Insert, Contract!Exec

LEMMA RetryMaps ==
  ASSUME RowsOK, Undecided, NEW w \in Worker, NEW e \in Exec, Decides(w, e), MaybeRetry(e)
  PROVE  [Contract!Next]_(Contract!vars)
<1>1. CASE RetryApplies(e) /\ CreateExecution(attempt[e] + 1, e)
  <2>1. last + 1 \in Exec /\ Contract!Retry(last + 1, e)
    BY <1>1, InsertMaps DEF RetryApplies, Undecided, Contract!Retry, Exec, Contract!Exec
  <2> QED
    BY <2>1 DEF Contract!Next, Exec, Contract!Exec
<1>2. CASE UNCHANGED rowVars
  BY <1>2 DEF rowVars, Contract!vars
<1> QED
  BY <1>1, <1>2 DEF MaybeRetry

\* A final status that is written to a row underway ends it.
LEMMA EndMaps ==
  ASSUME NEW e \in Exec, Underway(e), NEW r \in Ended, status' = [status EXCEPT ![e] = r],
         UNCHANGED <<attempt, retryOf>>
  PROVE  [Contract!Next]_(Contract!vars)
<1>1. Contract!End(e)
  BY DEF Contract!End, Contract!Move, Underway, Ended, Contract!Ended
<1> QED
  BY <1>1 DEF Contract!Next, Exec, Contract!Exec

\* Each step of the code is a step of the contract, or does not show in the table.
LEMMA ContractStep ==
  ASSUME TypeOK, ClaimInv, Orderly, [Next]_vars
  PROVE  [Contract!Next]_(Contract!vars)
<1> DEFINE Stays == UNCHANGED <<status, attempt, retryOf>>
<1>0. RowsOK /\ RequestOK /\ Undecided /\ UnderwayInv
  BY DEF TypeOK, Orderly
<1>a. /\ \A w \in Worker : pc[w] \in Owning => held[w] \in Exec /\ Decides(w, held[w])
      /\ \A w \in Worker : pc[w] = "reaped" => held[w] \in Exec /\ Decides(w, held[w])
      /\ \A w \in Worker : stale[w] \subseteq Exec
      /\ \A w \in Worker : pc[w] = "fin" => outcome[w] \in Ended
  BY ReferencesExist, BoundsAssumption DEF Decides, TypeOK, RowsOK, WorkersOK, Holding, Executing, Exec
<1>b. ASSUME Stays PROVE [Contract!Next]_(Contract!vars)
  BY <1>b DEF Contract!vars
<1>1. ASSUME EnqueueRun PROVE [Contract!Next]_(Contract!vars)
  BY <1>1, <1>0, InsertMaps DEF EnqueueRun, Contract!Next, Contract!Request, Exec, Contract!Exec
<1>2. CASE ToggleJob \/ \E e \in Exec : CancelRead(e)
  BY <1>2, <1>b DEF ToggleJob, CancelRead, rowVars
<1>3. ASSUME CancelCommit PROVE [Contract!Next]_(Contract!vars)
  <2>1. CASE apiSeen = "queued" /\ status' = [status EXCEPT ![apiExec] = "cancelled"]
    <3>1. apiExec \in Exec /\ apiExec \in Cancellable /\ status[apiExec] \in Status \ {"absent"}
      BY <1>3, <1>0, BoundsAssumption DEF CancelCommit, RowsOK, RequestOK, UnderwayInv, Exec
    <3>2. Contract!Cancel(apiExec)
      BY <1>3, <2>1, <3>1 DEF CancelCommit, Status, Ended, Contract!Cancel, Contract!Move, Contract!Ended
    <3> QED
      BY <3>1, <3>2 DEF Contract!Next, Exec, Contract!Exec
  <2>2. CASE UNCHANGED status
    BY <1>3, <1>b, <2>2 DEF CancelCommit
  <2> QED
    BY <1>3, <2>1, <2>2 DEF CancelCommit
<1>4. ASSUME NEW w \in Worker, ClaimCommit(w) PROVE [Contract!Next]_(Contract!vars)
  <2>1. held[w] \in Exec /\ status[held[w]] = "queued"
    BY <1>4, <1>a DEF ClaimCommit, Owning, ClaimInv
  <2>2. Contract!Start(held[w])
    BY <1>4, <2>1 DEF ClaimCommit, Contract!Start, Contract!Move
  <2> QED
    BY <2>1, <2>2 DEF Contract!Next, Exec, Contract!Exec
<1>5. ASSUME NEW w \in Worker, PrepareFails(w) PROVE [Contract!Next]_(Contract!vars)
  <2>1. held[w] \in Exec /\ Underway(held[w]) /\ "failed" \in Ended
    BY <1>5, <1>0, <1>a DEF PrepareFails, Owning, Executing, UnderwayInv, Ended
  <2> QED
    BY <1>5, <2>1, EndMaps DEF PrepareFails
<1>6. ASSUME NEW w \in Worker, Finish(w) PROVE [Contract!Next]_(Contract!vars)
  <2>1. held[w] \in Exec /\ Underway(held[w]) /\ outcome[w] \in Ended
    BY <1>6, <1>0, <1>a DEF Finish, Owning, Executing, UnderwayInv
  <2> QED
    BY <1>6, <2>1, EndMaps DEF Finish
<1>7. ASSUME NEW w \in Worker, ReapFail(w) PROVE [Contract!Next]_(Contract!vars)
  <2>1. PICK e \in stale[w] : status' = [status EXCEPT ![e] = "failed"]
    BY <1>7 DEF ReapFail
  <2>2. e \in Exec /\ Underway(e) /\ "failed" \in Ended
    BY <1>0, <1>a DEF UnderwayInv, Ended
  <2> QED
    BY <1>7, <2>1, <2>2, EndMaps DEF ReapFail
<1>8. ASSUME NEW w \in Worker, AfterRun(w) \/ ReapRetry(w) PROVE [Contract!Next]_(Contract!vars)
  <2>1. held[w] \in Exec /\ Decides(w, held[w]) /\ MaybeRetry(held[w])
    BY <1>8, <1>a DEF AfterRun, ReapRetry, Owning
  <2> QED
    BY <2>1, <1>0, RetryMaps
<1>9. ASSUME NEW w \in Worker,
             \/ ClaimLock(w) \/ NothingQueued(w) \/ Prepared(w) \/ ReapSelect(w) \/ OrchestrateNothing(w)
             \/ Restart(w) \/ ProcessExits(w) \/ HeartbeatTimeout(w) \/ HeartbeatCancel(w)
             \/ Heartbeat(w) \/ Crash(w)
      PROVE [Contract!Next]_(Contract!vars)
  BY <1>9, <1>b DEF ClaimLock, NothingQueued, Prepared, ReapSelect, OrchestrateNothing, Restart, ProcessExits,
     HeartbeatTimeout, HeartbeatCancel, Heartbeat, Crash, TouchLease, rowVars
<1>10. CASE (\E e \in Exec : LeaseExpires(e)) \/ UNCHANGED vars
  BY <1>10, <1>b DEF LeaseExpires, vars, rowVars
<1> QED
  BY <1>1, <1>2, <1>3, <1>4, <1>5, <1>6, <1>7, <1>8, <1>9, <1>10 DEF Next, Api, Step

\* The table keeps what its clients rely on (RunContract): rows are queued, started once, ended,
\* and retried once and only when they failed, whatever crashes, as long as no worker stalls.
THEOREM KeepsContract ==
  ASSUME SlowWorker = {} PROVE Spec => ImplementsContract
<1>1. Init => Contract!Init
  BY DEF Init, Contract!Init, Exec, Contract!Exec
<1>2. TypeOK /\ ClaimInv /\ Orderly /\ [Next]_vars => [Contract!Next]_(Contract!vars)
  BY ContractStep
<1>3. Init => ClaimInv /\ Orderly
  BY OrderlyInit
<1>4. TypeOK /\ ClaimInv /\ Orderly /\ [Next]_vars => ClaimInv' /\ Orderly'
  BY ClaimStep, OrderlyStep
<1> QED
  BY <1>1, <1>2, <1>3, <1>4, TypeCorrect, PTL DEF Spec, ImplementsContract, Contract!Spec
=============================================================================
