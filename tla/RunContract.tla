----------------------------- MODULE RunContract ------------------------------
(***************************************************************************)
(* What a client of the executions table may rely on, without workers,     *)
(* leases or requests in flight: a row is queued, started once and ended   *)
(* once, an end is final, and only a failed execution with attempts left   *)
(* is retried, once.  A cancellation alone is not: it may come after the   *)
(* start or the end it raced, and be replaced by an end that raced it.     *)
(***************************************************************************)
EXTENDS Integers

CONSTANTS RetryCount, MaxExec, Cancellable

Exec == 1..MaxExec
Ended == {"success", "failed", "cancelled", "timeout"}

VARIABLES status, attempt, retryOf

vars == <<status, attempt, retryOf>>

Init ==
  /\ status = [e \in Exec |-> "absent"]
  /\ attempt = [e \in Exec |-> 0]
  /\ retryOf = [e \in Exec |-> 0]

Insert(e, number, parent) ==
  /\ status[e] = "absent" /\ \A f \in 1..(e - 1) : status[f] # "absent"
  /\ status' = [status EXCEPT ![e] = "queued"]
  /\ attempt' = [attempt EXCEPT ![e] = number]
  /\ retryOf' = [retryOf EXCEPT ![e] = parent]

Request(e) == Insert(e, 1, 0)

Retry(e, failed) ==
  /\ status[failed] = "failed" /\ attempt[failed] <= RetryCount
  /\ \A r \in Exec : retryOf[r] # failed
  /\ Insert(e, attempt[failed] + 1, failed)

Move(e, from, to) ==
  /\ status[e] = from
  /\ status' = [status EXCEPT ![e] = to]
  /\ UNCHANGED <<attempt, retryOf>>

Start(e) == Move(e, "queued", "running")
Cancel(e) == \E from \in {"queued", "running"} \union Ended : e \in Cancellable /\ Move(e, from, "cancelled")
End(e) ==
  \E result \in Ended :
    \/ Move(e, "running", result)
    \/ e \in Cancellable /\ Move(e, "cancelled", result)

Next ==
  \/ \E e \in Exec : Request(e) \/ Start(e) \/ Cancel(e) \/ End(e)
  \/ \E e, failed \in Exec : Retry(e, failed)

Spec == Init /\ [][Next]_vars
=============================================================================
