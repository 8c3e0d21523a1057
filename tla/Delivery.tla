------------------------------- MODULE Delivery -------------------------------
(***************************************************************************)
(* What the outbox promises to a producer and to t2c_data: an event that   *)
(* was accepted waits until it is delivered, for good, or until it failed  *)
(* as often as allowed and is given up; an administrator may ask for it    *)
(* again, and so allow as many attempts anew.                              *)
(***************************************************************************)
EXTENDS Naturals

CONSTANTS Event, Attempts

VARIABLES
  state,    \* of each event
  left      \* the attempts it has left

Init ==
  /\ state = [k \in Event |-> "absent"]
  /\ left = [k \in Event |-> Attempts]

Accept(k) ==
  /\ state[k] = "absent"
  /\ state' = [state EXCEPT ![k] = "waiting"]
  /\ UNCHANGED left

Attempt(k) == state[k] = "waiting" /\ left[k] > 0

Deliver(k) ==
  /\ Attempt(k)
  /\ state' = [state EXCEPT ![k] = "delivered"]
  /\ left' = [left EXCEPT ![k] = 0]

Fail(k) ==
  /\ Attempt(k)
  /\ left' = [left EXCEPT ![k] = @ - 1]
  /\ state' = [state EXCEPT ![k] = IF left[k] = 1 THEN "dead" ELSE "waiting"]

\* An administrator asks for any number of the events that are not delivered.
AskAgain(K) ==
  /\ \A k \in K : state[k] \in {"waiting", "dead"}
  /\ state' = [k \in Event |-> IF k \in K THEN "waiting" ELSE state[k]]
  /\ \E renewed \in SUBSET K :
       left' = [k \in Event |-> IF k \in renewed THEN Attempts ELSE left[k]]

Next ==
  \/ \E k \in Event : Accept(k) \/ Deliver(k) \/ Fail(k)
  \/ \E K \in SUBSET Event : AskAgain(K)

Spec == Init /\ [][Next]_<<state, left>>
=============================================================================
