----------------------------- MODULE AlertsProofs -----------------------------
(***************************************************************************)
(* That a notification is delivered once, but for resends and lost         *)
(* dispatches, whatever happens to the emits, the batches and the commits  *)
(* between.                                                                *)
(*                                                                         *)
(* Between a delivery and its commit the row still says that the delivery  *)
(* is to come.  So the invariant counts, for each notification, what it    *)
(* received and what may still be delivered without anybody asking for it: *)
(* by the batch (Owed), or because a resend that failed reopens the row    *)
(* when it commits (Reopens).  Their sum is what is allowed (Spare).  It   *)
(* needs that what an emitter has flushed is seen by nobody else           *)
(* (HiddenInv): else a commit of the batch could reopen a row.             *)
(***************************************************************************)
EXTENDS Alerts, FiniteSetTheorems, TLAPS

\* The outcome of what the dispatcher sent, as one more delivery that it leaves possible:
\* of what it has not sent, or only queued, one.
Owed(n) ==
  IF n \in Sent THEN IF batch.row[n].status = "sent" THEN 0 ELSE 1
  ELSE IF n \in Unsent \/ notif[n].status \in Alerted \union {"hidden"} THEN 1 ELSE 0
\* A resend that failed may reopen a notification when it commits: it was excused.
Reopens(n) == IF resending.id = n /\ resending.outcome # "sent" THEN 1 ELSE 0
Spare(n) == received[n] + Owed(n) + Reopens(n) <= 1 + excused[n]

\* What is flushed and not committed is seen by nobody but its emitter.
HiddenInv ==
  /\ \A p \in Emitter : \A n \in emitting[p] : notif[n].status = "hidden"
  /\ \A p, q \in Emitter : p # q => emitting[p] \intersect emitting[q] = {}
  /\ \A n \in DOMAIN batch.row : notif[n].status # "hidden"
  /\ resending # NoResend => notif[resending.id].status # "hidden"

AlertsInv ==
  /\ HiddenInv
  /\ ~batch.open => DOMAIN batch.row = {}
  /\ \A n \in Notifs : Spare(n)

-----------------------------------------------------------------------------
(* Rows *)

LEMMA RowTypes ==
  ASSUME AlertTypeOK, NEW n \in Notifs
  PROVE  /\ notif[n] \in AlertRow /\ received[n] \in Nat /\ excused[n] \in Nat
         /\ notif[n].status \in AlertStatus
<1>1. notif[n] \in AlertRow
  BY DEF AlertTypeOK, Notifs
<1>2. received[n] \in Nat /\ excused[n] \in Nat
  BY DEF AlertTypeOK, Notifs
<1> QED BY <1>1, <1>2 DEF AlertRow

LEMMA RowChanges ==
  ASSUME NEW r \in AlertRow, NEW s \in AlertStatus, NEW k \in Nat, NEW c \in BOOLEAN
  PROVE  /\ [r EXCEPT !.status = s] \in AlertRow /\ [r EXCEPT !.status = s].status = s
         /\ [r EXCEPT !.status = s, !.attempts = k, !.cooling = c] \in AlertRow
         /\ [r EXCEPT !.status = s, !.attempts = k, !.cooling = c].status = s
         /\ [r EXCEPT !.status = s, !.cooling = c, !.attempts = k] \in AlertRow
         /\ [r EXCEPT !.status = s, !.cooling = c, !.attempts = k].status = s
  BY DEF AlertRow

LEMMA OutcomeIs ==
  ASSUME NEW accepted \in BOOLEAN, NEW k
  PROVE  /\ Outcome(accepted, k) \in Alerted \union AlertEnds
         /\ Outcome(accepted, k) = "sent" <=> accepted
  BY DEF Outcome, Alerted, AlertEnds

LEMMA FunctionIsSeq ==
  ASSUME NEW n \in Nat, NEW A, NEW q, q = [i \in 1..n |-> q[i]], \A i \in 1..n : q[i] \in A
  PROVE  q \in Seq(A) /\ Len(q) = n
  OBVIOUS

LEMMA Joined ==
  ASSUME NEW A, NEW q \in Seq(A), NEW r \in Seq(A)
  PROVE  /\ q \o r \in Seq(A) /\ Len(q \o r) = Len(q) + Len(r)
         /\ \A i \in 1..Len(q) : (q \o r)[i] = q[i]
         /\ \A i \in 1..Len(r) : (q \o r)[Len(q) + i] = r[i]
  OBVIOUS

LEMMA Types ==
  ASSUME AlertTypeOK
  PROVE  /\ Len(notif) \in Nat /\ Notifs = 1..Len(notif)
         /\ notif \in Seq(AlertRow) /\ received \in Seq(Nat) /\ excused \in Seq(Nat)
         /\ Len(received) = Len(notif) /\ Len(excused) = Len(notif)
         /\ emitting \in [Emitter -> SUBSET Notifs]
         /\ DOMAIN batch.row \subseteq Notifs /\ batch.row \in [DOMAIN batch.row -> Outcomes]
         /\ batch.known \subseteq Channel /\ batch.open \in BOOLEAN
         /\ batch = [row |-> batch.row, known |-> batch.known, open |-> batch.open]
         /\ resending # NoResend => resending.id \in Notifs
<1>1. notif \in Seq(AlertRow)
  BY DEF AlertTypeOK
<1>2. Len(notif) \in Nat /\ Notifs = 1..Len(notif)
  BY <1>1 DEF Notifs
<1>3. resending # NoResend => resending.id \in Notifs
  BY DEF AlertTypeOK
<1>4. batch = [row |-> batch.row, known |-> batch.known, open |-> batch.open]
  BY DEF AlertTypeOK
<1>5. batch.known \subseteq Channel /\ batch.open \in BOOLEAN
  BY DEF AlertTypeOK
<1> QED BY <1>1, <1>2, <1>3, <1>4, <1>5 DEF AlertTypeOK

\* Two ways to say what a batch is: that its rows are a function is all that differs.
LEMMA BatchForms ==
  ASSUME NEW b, NEW ids, NEW S
  PROVE  b \in [row : UNION {[s -> Outcomes] : s \in SUBSET ids}, known : S, open : BOOLEAN]
         <=> /\ b \in [row : {b.row}, known : S, open : BOOLEAN]
             /\ DOMAIN b.row \subseteq ids /\ b.row \in [DOMAIN b.row -> Outcomes]
<1>1. ASSUME b \in [row : UNION {[s -> Outcomes] : s \in SUBSET ids}, known : S, open : BOOLEAN]
      PROVE  /\ b \in [row : {b.row}, known : S, open : BOOLEAN]
             /\ DOMAIN b.row \subseteq ids /\ b.row \in [DOMAIN b.row -> Outcomes]
  <2>1. PICK s \in SUBSET ids : b \in [row : [s -> Outcomes], known : S, open : BOOLEAN]
    BY <1>1
  <2>2. b.row \in [s -> Outcomes] /\ DOMAIN b.row = s
    BY <2>1
  <2> QED BY <2>1, <2>2
<1>2. ASSUME /\ b \in [row : {b.row}, known : S, open : BOOLEAN]
             /\ DOMAIN b.row \subseteq ids /\ b.row \in [DOMAIN b.row -> Outcomes]
      PROVE  b \in [row : UNION {[s -> Outcomes] : s \in SUBSET ids}, known : S, open : BOOLEAN]
  <2>1. b.row \in UNION {[s -> Outcomes] : s \in SUBSET ids}
    BY <1>2
  <2> QED BY <1>2, <2>1
<1> QED BY <1>1, <1>2

\* The notifications that emit queues: new, of channels that there are.
LEMMA QueuedRows ==
  ASSUME NEW event \in DOMAIN Event, NEW status \in {"hidden", "pending"}
  PROVE  /\ Queued(event, status) \in Seq(AlertRow)
         /\ \A i \in 1..Len(Queued(event, status)) : Queued(event, status)[i].status = status
<1> DEFINE S == {c \in Channel : Subscribed(c, event) /\ ~Duplicate(c, event)}
           chosen == SetToSeq(S)
           rows == Queued(event, status)
<1>1. IsFiniteSet(S)
  BY FS_Subset, AlertsAssumption
<1>2. PICK n \in Nat : n = Cardinality(S) /\ ExistsBijection(1..n, S)
  BY <1>1, FS_CardinalityType
<1>3. PICK f \in [1..n -> S] : IsInjective(f)
  BY <1>2 DEF ExistsBijection, Bijection, Injection
<1>4. chosen \in [1..n -> S]
  BY <1>2, <1>3 DEF SetToSeq
<1> HIDE DEF S
<1>5. chosen \in Seq(Channel) /\ Len(chosen) = n
  <2>1. S \subseteq Channel
    BY DEF S
  <2> QED BY <1>4, <2>1
<1> HIDE DEF chosen
<1>6. rows = [i \in 1..Len(chosen) |-> [channel |-> chosen[i], event |-> event, status |-> status,
                                        attempts |-> 0, cooling |-> FALSE, recent |-> TRUE]]
  BY DEF Queued, chosen, S
<1>7. ASSUME NEW i \in 1..n PROVE rows[i] \in AlertRow /\ rows[i].status = status
  <2>1. chosen[i] \in Channel
    BY <1>5
  <2>3. status \in AlertStatus
    BY DEF AlertStatus, Alerted
  <2>2. rows[i] = [channel |-> chosen[i], event |-> event, status |-> status,
                   attempts |-> 0, cooling |-> FALSE, recent |-> TRUE]
    BY <1>5, <1>6
  <2> QED BY <2>1, <2>2, <2>3 DEF AlertRow
<1>8. rows = [i \in 1..n |-> rows[i]]
  BY <1>5, <1>6
<1> HIDE DEF rows
<1>9. rows \in Seq(AlertRow) /\ Len(rows) = n
  BY <1>7, <1>8, FunctionIsSeq
<1> QED BY <1>7, <1>9 DEF rows

LEMMA OwedRange == ASSUME NEW n PROVE Owed(n) \in 0..1 /\ Reopens(n) \in 0..1
<1>1. Owed(n) \in 0..1
  BY DEF Owed
<1>2. Reopens(n) \in 0..1
  BY DEF Reopens
<1> QED BY <1>1, <1>2
-----------------------------------------------------------------------------
(* The steps *)

\* Rows are added, by a test of a channel with its delivery, or by an emit.
Added(rows, got, none) ==
  /\ rows \in Seq(AlertRow) /\ got \in Seq(Nat) /\ none \in Seq(Nat)
  /\ Len(got) = Len(rows) /\ Len(none) = Len(rows) /\ Len(notif) + Len(rows) <= MaxNotifs
  /\ \A i \in 1..Len(rows) :
       none[i] = 0 /\ got[i] <= IF rows[i].status \in Alerted \union {"hidden"} THEN 0 ELSE 1
  /\ notif' = notif \o rows /\ received' = received \o got /\ excused' = excused \o none
  /\ UNCHANGED <<batch, resending>>
  /\ \/ emitting' = emitting
     \/ /\ \A i \in 1..Len(rows) : rows[i].status = "hidden"
        /\ \E p \in Emitter : emitting' = [emitting EXCEPT ![p] = (Len(notif) + 1)..Len(notif')]

LEMMA AddedRows ==
  ASSUME AlertTypeOK, NEW rows, NEW got, NEW none, Added(rows, got, none)
  PROVE  /\ notif' \in Seq(AlertRow) /\ received' \in Seq(Nat) /\ excused' \in Seq(Nat)
         /\ Len(notif') = Len(notif) + Len(rows) /\ Len(received') = Len(notif) + Len(rows) /\ Len(excused') = Len(notif) + Len(rows)
         /\ \A n \in 1..Len(notif) : notif'[n] = notif[n] /\ received'[n] = received[n] /\ excused'[n] = excused[n]
         /\ \A i \in 1..Len(rows) : /\ notif'[Len(notif) + i] = rows[i] /\ received'[Len(notif) + i] = got[i]
                            /\ excused'[Len(notif) + i] = none[i]
<1> DEFINE N == Len(notif)
           M == Len(rows)
<1>1. /\ notif' \in Seq(AlertRow) /\ Len(notif') = N + M
      /\ \A n \in 1..N : notif'[n] = notif[n]
      /\ \A i \in 1..M : notif'[N + i] = rows[i]
  <2>1. notif \in Seq(AlertRow) /\ rows \in Seq(AlertRow) /\ notif' = notif \o rows
    BY Types DEF Added
  <2> QED BY <2>1, Joined
<1>2. /\ received' \in Seq(Nat) /\ Len(received') = N + M
      /\ \A n \in 1..N : received'[n] = received[n]
      /\ \A i \in 1..M : received'[N + i] = got[i]
  <2>1. received \in Seq(Nat) /\ got \in Seq(Nat)
    BY Types DEF Added
  <2>2. /\ received \o got \in Seq(Nat) /\ Len(received \o got) = Len(received) + Len(got)
        /\ \A i \in 1..Len(received) : (received \o got)[i] = received[i]
        /\ \A i \in 1..Len(got) : (received \o got)[Len(received) + i] = got[i]
    BY ONLY <2>1, Joined
  <2>3. received' = received \o got /\ Len(received) = N /\ Len(got) = M
    BY Types DEF Added
  <2> HIDE DEF N, M
  <2> QED BY ONLY <2>2, <2>3
<1>3. /\ excused' \in Seq(Nat) /\ Len(excused') = N + M
      /\ \A n \in 1..N : excused'[n] = excused[n]
      /\ \A i \in 1..M : excused'[N + i] = none[i]
  <2>1. excused \in Seq(Nat) /\ none \in Seq(Nat)
    BY Types DEF Added
  <2>2. /\ excused \o none \in Seq(Nat) /\ Len(excused \o none) = Len(excused) + Len(none)
        /\ \A i \in 1..Len(excused) : (excused \o none)[i] = excused[i]
        /\ \A i \in 1..Len(none) : (excused \o none)[Len(excused) + i] = none[i]
    BY ONLY <2>1, Joined
  <2>3. excused' = excused \o none /\ Len(excused) = N /\ Len(none) = M
    BY Types DEF Added
  <2> HIDE DEF N, M
  <2> QED BY ONLY <2>2, <2>3
<1> QED BY <1>1, <1>2, <1>3

LEMMA AddedEmitting ==
  ASSUME AlertTypeOK, HiddenInv, NEW rows, NEW got, NEW none, Added(rows, got, none)
  PROVE  /\ emitting' \in [Emitter -> SUBSET Notifs']
         /\ \A p \in Emitter : \A n \in emitting'[p] : notif'[n].status = "hidden"
         /\ \A p, q \in Emitter : p # q => emitting'[p] \intersect emitting'[q] = {}
<1> DEFINE N == Len(notif)
           M == Len(rows)
           New == (N + 1)..(N + M)
<1>1. N \in Nat /\ M \in Nat /\ Notifs = 1..N
  BY Types DEF Added
<1>2. /\ Len(notif') = N + M
      /\ \A n \in 1..N : notif'[n] = notif[n]
      /\ \A i \in 1..M : notif'[N + i] = rows[i]
  BY AddedRows, Zenon
<1> HIDE DEF N, M
<1>3. Notifs' = 1..(N + M)
  BY <1>2 DEF Notifs
<1>4. Notifs \subseteq Notifs' /\ New \subseteq Notifs' /\ New \intersect Notifs = {}
  BY <1>1, <1>3
<1>5. \A p \in Emitter : emitting[p] \subseteq Notifs
  BY Types
<1>6. \A p \in Emitter : \A n \in emitting[p] : notif'[n].status = "hidden"
  BY <1>1, <1>2, <1>5 DEF HiddenInv
<1>7. CASE emitting' = emitting
  <2>1. emitting' \in [Emitter -> SUBSET Notifs']
    BY <1>4, <1>7, Types
  <2> QED BY <2>1, <1>6, <1>7 DEF HiddenInv
<1>8. CASE /\ \A i \in 1..Len(rows) : rows[i].status = "hidden"
           /\ \E p \in Emitter : emitting' = [emitting EXCEPT ![p] = (Len(notif) + 1)..Len(notif')]
  <2>1. PICK w \in Emitter : emitting' = [emitting EXCEPT ![w] = New]
    BY <1>8, <1>2 DEF N
  <2>2. ASSUME NEW n \in New PROVE notif'[n].status = "hidden"
    <3>1. n - N \in 1..M /\ N + (n - N) = n
      BY <1>1
    <3>2. notif'[n] = rows[n - N]
      BY <3>1, <1>2
    <3> QED BY <3>1, <3>2, <1>8 DEF M
  <2> HIDE DEF New
  <2>3. emitting \in [Emitter -> SUBSET Notifs]
    BY Types
  <2>4. \A p \in Emitter : emitting'[p] = IF p = w THEN New ELSE emitting[p]
    BY <2>1, <2>3
  <2>5. emitting' \in [Emitter -> SUBSET Notifs']
    <3>1. emitting' = [p \in Emitter |-> emitting'[p]]
      BY <2>1, <2>3
    <3>2. \A p \in Emitter : emitting'[p] \subseteq Notifs'
      BY <2>4, <1>4, <1>5
    <3> QED BY <3>1, <3>2
  <2>6. \A p \in Emitter : \A n \in emitting'[p] : notif'[n].status = "hidden"
    BY <2>2, <2>4, <1>6
  <2>7. ASSUME NEW p \in Emitter, NEW q \in Emitter, p # q PROVE emitting'[p] \intersect emitting'[q] = {}
    <3>1. emitting[p] \intersect emitting[q] = {}
      BY <2>7 DEF HiddenInv
    <3>2. emitting'[p] = (IF p = w THEN New ELSE emitting[p]) /\ emitting'[q] = (IF q = w THEN New ELSE emitting[q])
      BY <2>4
    <3> QED BY <2>7, <3>1, <3>2, <1>4, <1>5
  <2> QED BY <2>5, <2>6, <2>7
<1> QED BY <1>7, <1>8 DEF Added

LEMMA AddedKeep ==
  ASSUME AlertTypeOK, AlertsInv, NEW rows, NEW got, NEW none, Added(rows, got, none)
  PROVE  AlertTypeOK' /\ AlertsInv'
<1> DEFINE N == Len(notif)
           M == Len(rows)
<1>1. N \in Nat /\ M \in Nat /\ Notifs = 1..N /\ N + M <= MaxNotifs /\ batch' = batch /\ resending' = resending
  BY Types DEF Added
<1>2. /\ notif' \in Seq(AlertRow) /\ received' \in Seq(Nat) /\ excused' \in Seq(Nat)
      /\ Len(notif') = N + M /\ Len(received') = N + M /\ Len(excused') = N + M
      /\ \A n \in 1..N : notif'[n] = notif[n] /\ received'[n] = received[n] /\ excused'[n] = excused[n]
      /\ \A i \in 1..M : /\ notif'[N + i] = rows[i] /\ received'[N + i] = got[i]
                         /\ excused'[N + i] = none[i]
  <2>1. notif' \in Seq(AlertRow) /\ received' \in Seq(Nat) /\ excused' \in Seq(Nat)
    BY AddedRows, Zenon
  <2>2. Len(notif') = N + M /\ Len(received') = N + M /\ Len(excused') = N + M
    BY AddedRows, Zenon
  <2>3. ASSUME NEW n \in 1..N
        PROVE  notif'[n] = notif[n] /\ received'[n] = received[n] /\ excused'[n] = excused[n]
    BY AddedRows, Zenon
  <2>4. ASSUME NEW i \in 1..M
        PROVE  notif'[N + i] = rows[i] /\ received'[N + i] = got[i] /\ excused'[N + i] = none[i]
    <3>1. i \in 1..Len(rows)
      OBVIOUS
    <3>2. notif'[Len(notif) + i] = rows[i]
      BY <3>1, AddedRows
    <3>3. received'[Len(notif) + i] = got[i]
      BY <3>1, AddedRows
    <3>4. excused'[Len(notif) + i] = none[i]
      BY <3>1, AddedRows
    <3> QED BY <3>2, <3>3, <3>4
  <2> QED BY <2>1, <2>2, <2>3, <2>4
<1>3. HiddenInv
  BY DEF AlertsInv
<1>4. /\ emitting' \in [Emitter -> SUBSET Notifs']
      /\ \A p \in Emitter : \A n \in emitting'[p] : notif'[n].status = "hidden"
      /\ \A p, q \in Emitter : p # q => emitting'[p] \intersect emitting'[q] = {}
  BY <1>3, AddedEmitting
<1>5. \A i \in 1..M : none[i] = 0 /\ got[i] <= IF rows[i].status \in Alerted \union {"hidden"} THEN 0 ELSE 1
  BY DEF Added
<1>6. \A i \in 1..M : got[i] \in Nat
  BY DEF Added
<1> HIDE DEF N, M
<1>7. Notifs' = 1..(N + M) /\ Notifs \subseteq Notifs'
  BY <1>1, <1>2 DEF Notifs
<1>8. DOMAIN batch.row \subseteq Notifs /\ (resending # NoResend => resending.id \in Notifs)
  BY Types
<1>9. AlertTypeOK'
  <2>1. resending = NoResend \/ resending \in [id : Notifs, outcome : Alerted \union AlertEnds, attempts : Nat]
    BY DEF AlertTypeOK
  <2>2. resending' = NoResend \/ resending' \in [id : Notifs', outcome : Alerted \union AlertEnds, attempts : Nat]
    BY <1>1, <1>7, <2>1
  <2>3. /\ batch' \in [row : {batch'.row}, known : SUBSET Channel, open : BOOLEAN]
        /\ DOMAIN batch'.row \subseteq Notifs' /\ batch'.row \in [DOMAIN batch'.row -> Outcomes]
    BY <1>1, <1>7, <1>8 DEF AlertTypeOK
  <2> QED BY <1>1, <1>2, <1>4, <2>2, <2>3 DEF AlertTypeOK
<1>10. HiddenInv'
  <2>1. \A n \in DOMAIN batch'.row : notif'[n].status # "hidden"
    BY <1>1, <1>2, <1>3, <1>8 DEF HiddenInv
  <2>2. resending' # NoResend => notif'[resending'.id].status # "hidden"
    BY <1>1, <1>2, <1>3, <1>8 DEF HiddenInv
  <2> QED BY <1>4, <2>1, <2>2 DEF HiddenInv
<1>11. ASSUME NEW n \in Notifs' PROVE Spare(n)'
  <2>1. CASE n \in Notifs
    <3>1. notif'[n] = notif[n] /\ received'[n] = received[n] /\ excused'[n] = excused[n]
      BY <2>1, <1>1, <1>2
    <3>2. Spare(n)
      BY <2>1 DEF AlertsInv
    <3>3. Owed(n)' = Owed(n)
      BY <1>1, <3>1 DEF Owed, Sent, Unsent
    <3>4. Reopens(n)' = Reopens(n)
      BY <1>1 DEF Reopens
    <3> QED BY <3>1, <3>2, <3>3, <3>4 DEF Spare
  <2>2. CASE n \notin Notifs
    <3>1. PICK i \in 1..M : n = N + i
      <4>1. n - N \in 1..M /\ N + (n - N) = n
        BY <2>2, <1>1, <1>7
      <4> QED BY <4>1
    <3>2. received'[n] = got[i] /\ excused'[n] = none[i] /\ notif'[n] = rows[i]
      BY <3>1, <1>2
    <3>3. got[i] \in Nat /\ none[i] = 0
      BY <1>5, <1>6
    <3>4. n \notin DOMAIN batch'.row
      BY <2>2, <1>1, <1>8
    <3>5. resending'.id # n
      <4>1. n # 0
        BY <1>1, <1>7
      <4> QED BY <2>2, <4>1, <1>1, <1>8 DEF NoResend
    <3>6. Owed(n)' = IF rows[i].status \in Alerted \union {"hidden"} THEN 1 ELSE 0
      BY <3>2, <3>4 DEF Owed, Sent, Unsent
    <3>7. Reopens(n)' = 0
      BY <3>5 DEF Reopens
    <3>8. got[i] + (IF rows[i].status \in Alerted \union {"hidden"} THEN 1 ELSE 0) <= 1
      BY <1>5, <1>6
    <3> QED BY <3>2, <3>3, <3>6, <3>7, <3>8 DEF Spare
  <2> QED BY <2>1, <2>2
<1>12. ~batch'.open => DOMAIN batch'.row = {}
  BY <1>1 DEF AlertsInv
<1> QED BY <1>9, <1>10, <1>11, <1>12 DEF AlertsInv

\* Nothing that counts changes but the statuses and the times of rows, and what emitters
\* have flushed: by an emit that ends, or as time passes.
Touched ==
  /\ UNCHANGED <<batch, resending, received, excused>>
  /\ Len(notif') = Len(notif) /\ notif' \in Seq(AlertRow)
  /\ emitting' \in [Emitter -> SUBSET Notifs]
  /\ \A p \in Emitter : emitting'[p] \subseteq emitting[p]
  /\ \A n \in Notifs : \/ notif'[n].status = notif[n].status
                       \/ /\ notif[n].status = "hidden" /\ notif'[n].status \in {"pending", "rolled back"}
                          /\ \A p \in Emitter : n \notin emitting'[p]

LEMMA TouchedKeep == ASSUME AlertTypeOK, AlertsInv, Touched PROVE AlertTypeOK' /\ AlertsInv'
<1>1. Notifs' = Notifs
  BY DEF Notifs, Touched
<1>2. UNCHANGED <<batch, resending, received, excused>>
  BY DEF Touched
<1>3. AlertTypeOK'
  BY <1>1 DEF AlertTypeOK, Touched
<1>4. DOMAIN batch.row \subseteq Notifs /\ (resending # NoResend => resending.id \in Notifs)
  BY Types
<1>5. \A n \in Notifs : notif'[n].status = "hidden" => notif[n].status = "hidden"
  BY DEF Touched
<1>6. HiddenInv'
  <2>1. \A p \in Emitter : \A n \in emitting'[p] : notif'[n].status = "hidden"
    <3>1. ASSUME NEW p \in Emitter, NEW n \in emitting'[p] PROVE notif'[n].status = "hidden"
      <4>1. n \in emitting[p] /\ n \in Notifs
        BY <3>1, Types DEF Touched
      <4>2. notif[n].status = "hidden"
        BY <4>1 DEF AlertsInv, HiddenInv
      <4> QED BY <3>1, <4>1, <4>2 DEF Touched
    <3> QED BY <3>1
  <2>2. \A p, q \in Emitter : p # q => emitting'[p] \intersect emitting'[q] = {}
    BY DEF AlertsInv, HiddenInv, Touched
  <2>3. \A n \in DOMAIN batch'.row : notif'[n].status # "hidden"
    BY <1>2, <1>4, <1>5 DEF AlertsInv, HiddenInv
  <2>4. resending' # NoResend => notif'[resending'.id].status # "hidden"
    BY <1>2, <1>4, <1>5 DEF AlertsInv, HiddenInv
  <2> QED BY <2>1, <2>2, <2>3, <2>4 DEF HiddenInv
<1>7. ASSUME NEW n \in Notifs PROVE Spare(n)'
  <2>1. Spare(n)
    BY DEF AlertsInv
  <2>2. received[n] \in Nat /\ excused[n] \in Nat
    BY RowTypes
  <2>3. notif'[n].status \in Alerted \union {"hidden"} => notif[n].status \in Alerted \union {"hidden"}
    BY DEF Touched, Alerted
  <2>4. Owed(n)' \in 0..1 /\ Owed(n) \in 0..1 /\ Owed(n)' <= Owed(n)
    BY <1>2, <2>3 DEF Owed, Sent, Unsent
  <2>5. Reopens(n)' = Reopens(n) /\ Reopens(n) \in 0..1
    BY <1>2 DEF Reopens
  <2>6. received'[n] = received[n] /\ excused'[n] = excused[n]
    BY <1>2
  <2> HIDE DEF Touched
  <2> QED BY <2>1, <2>2, <2>4, <2>5, <2>6 DEF Spare
<1>8. ~batch'.open => DOMAIN batch'.row = {}
  BY <1>2 DEF AlertsInv
<1> QED BY <1>1, <1>3, <1>6, <1>7, <1>8 DEF AlertsInv

LEMMA EmitEndsKeeps ==
  ASSUME AlertTypeOK, AlertsInv, NEW p \in Emitter, NEW status \in {"pending", "rolled back"},
         EmitEnds(p, status)
  PROVE  AlertTypeOK' /\ AlertsInv'
<1>1. UNCHANGED <<batch, resending, received, excused>> /\ emitting' = [emitting EXCEPT ![p] = {}]
  BY DEF EmitEnds
<1>2. notif' = [n \in Notifs |-> IF n \in emitting[p] THEN [notif[n] EXCEPT !.status = status] ELSE notif[n]]
  BY DEF EmitEnds
<1>3. status \in AlertStatus
  BY DEF AlertStatus, Alerted
<1>4. ASSUME NEW n \in Notifs
      PROVE  /\ notif'[n] \in AlertRow
             /\ notif'[n].status = IF n \in emitting[p] THEN status ELSE notif[n].status
  <2>1. notif[n] \in AlertRow
    BY RowTypes
  <2>2. [notif[n] EXCEPT !.status = status] \in AlertRow /\ [notif[n] EXCEPT !.status = status].status = status
    BY <1>3, <2>1, RowChanges
  <2>3. notif'[n] = IF n \in emitting[p] THEN [notif[n] EXCEPT !.status = status] ELSE notif[n]
    BY <1>2
  <2> QED BY <2>1, <2>2, <2>3
<1>5. Len(notif) \in Nat /\ Notifs = 1..Len(notif)
  BY Types
<1>6. notif' = [n \in 1..Len(notif) |-> notif'[n]]
  BY <1>2, <1>5
<1>7. notif' \in Seq(AlertRow) /\ Len(notif') = Len(notif)
  BY <1>4, <1>5, <1>6, FunctionIsSeq
<1>8. emitting \in [Emitter -> SUBSET Notifs]
  BY Types
<1>9. emitting' \in [Emitter -> SUBSET Notifs] /\ \A q \in Emitter : emitting'[q] = IF q = p THEN {} ELSE emitting[q]
  BY <1>1, <1>8
<1>10. \A n \in emitting[p] : /\ notif[n].status = "hidden"
                              /\ \A q \in Emitter : n \notin emitting'[q]
  BY <1>9 DEF AlertsInv, HiddenInv
<1>11. \A n \in Notifs : \/ notif'[n].status = notif[n].status
                         \/ /\ notif[n].status = "hidden" /\ notif'[n].status \in {"pending", "rolled back"}
                            /\ \A q \in Emitter : n \notin emitting'[q]
  BY <1>4, <1>10
<1> QED BY <1>1, <1>7, <1>9, <1>11, TouchedKeep DEF Touched

LEMMA WaitKeeps ==
  ASSUME AlertTypeOK, AlertsInv, NEW long \in BOOLEAN, Wait(long)
  PROVE  AlertTypeOK' /\ AlertsInv'
<1>1. UNCHANGED <<batch, resending, received, excused, emitting>>
  BY DEF Wait
<1>2. notif' = [n \in Notifs |-> [notif[n] EXCEPT !.cooling = FALSE, !.recent = @ /\ ~long]]
  BY DEF Wait
<1>3. ASSUME NEW n \in Notifs
      PROVE  notif'[n] \in AlertRow /\ notif'[n].status = notif[n].status
  <2>1. PICK again \in BOOLEAN : notif'[n] = [notif[n] EXCEPT !.cooling = FALSE, !.recent = again]
    BY <1>2
  <2> QED BY <2>1, RowTypes DEF AlertRow
<1>4. Len(notif) \in Nat /\ Notifs = 1..Len(notif)
  BY Types
<1>5. notif' = [n \in 1..Len(notif) |-> notif'[n]]
  BY <1>2, <1>4
<1>6. notif' \in Seq(AlertRow) /\ Len(notif') = Len(notif)
  BY <1>3, <1>4, <1>5, FunctionIsSeq
<1>7. emitting' \in [Emitter -> SUBSET Notifs] /\ \A p \in Emitter : emitting'[p] \subseteq emitting[p]
  BY <1>1, Types
<1> QED BY <1>1, <1>3, <1>6, <1>7, TouchedKeep DEF Touched

\* A step of the dispatcher or of a resend: what it may change, and what it leaves right.
Worked ==
  /\ emitting' = emitting
  /\ notif' \in Seq(AlertRow) /\ received' \in Seq(Nat) /\ excused' \in Seq(Nat)
  /\ Len(notif') = Len(notif) /\ Len(received') = Len(notif) /\ Len(excused') = Len(notif)
  /\ \A n \in Notifs : notif'[n].status = "hidden" <=> notif[n].status = "hidden"
  /\ batch' \in [row : UNION {[ids -> Outcomes] : ids \in SUBSET Notifs},
                 known : SUBSET Channel, open : BOOLEAN]
  /\ ~batch'.open => DOMAIN batch'.row = {}
  /\ \A n \in DOMAIN batch'.row : n \in Notifs /\ notif[n].status # "hidden"
  /\ \/ resending' = NoResend
     \/ /\ resending' \in [id : Notifs, outcome : Alerted \union AlertEnds, attempts : Nat]
        /\ notif[resending'.id].status # "hidden"

LEMMA WorkedKeeps ==
  ASSUME AlertTypeOK, AlertsInv, Worked, \A n \in Notifs : Spare(n)'
  PROVE  AlertTypeOK' /\ AlertsInv'
<1>1. Notifs' = Notifs
  BY DEF Notifs, Worked
<1>2. emitting \in [Emitter -> SUBSET Notifs] /\ Len(notif) <= MaxNotifs
  BY DEF AlertTypeOK
<1>3. AlertTypeOK'
  <2>1. /\ batch' \in [row : {batch'.row}, known : SUBSET Channel, open : BOOLEAN]
        /\ DOMAIN batch'.row \subseteq Notifs /\ batch'.row \in [DOMAIN batch'.row -> Outcomes]
    BY BatchForms DEF Worked
  <2> QED BY <1>1, <1>2, <2>1 DEF AlertTypeOK, Worked
<1>4. HiddenInv'
  <2>1. \A p \in Emitter : \A n \in emitting'[p] : notif'[n].status = "hidden"
    BY <1>2 DEF AlertsInv, HiddenInv, Worked
  <2>2. \A p, q \in Emitter : p # q => emitting'[p] \intersect emitting'[q] = {}
    BY DEF AlertsInv, HiddenInv, Worked
  <2>3. \A n \in DOMAIN batch'.row : notif'[n].status # "hidden"
    BY DEF Worked
  <2>4. resending' # NoResend => notif'[resending'.id].status # "hidden"
    BY DEF Worked
  <2> QED BY <2>1, <2>2, <2>3, <2>4 DEF HiddenInv
<1>5. ~batch'.open => DOMAIN batch'.row = {}
  BY DEF Worked
<1>6. \A n \in Notifs' : Spare(n)'
  BY <1>1
<1> QED BY <1>3, <1>4, <1>5, <1>6 DEF AlertsInv

\* What holds of each notification before a step.
LEMMA Before ==
  ASSUME AlertTypeOK, AlertsInv, NEW n \in Notifs
  PROVE  /\ received[n] + Owed(n) + Reopens(n) <= 1 + excused[n]
         /\ received[n] \in Nat /\ excused[n] \in Nat /\ Owed(n) \in 0..1 /\ Reopens(n) \in 0..1
<1>1. Spare(n)
  BY DEF AlertsInv
<1> QED BY <1>1, RowTypes, OwedRange DEF Spare

\* The state of the dispatcher and of the resend, as Worked asks for it.
LEMMA StillBatch ==
  ASSUME AlertTypeOK, AlertsInv
  PROVE  /\ batch \in [row : UNION {[ids -> Outcomes] : ids \in SUBSET Notifs},
                       known : SUBSET Channel, open : BOOLEAN]
         /\ ~batch.open => DOMAIN batch.row = {}
         /\ \A n \in DOMAIN batch.row : n \in Notifs /\ notif[n].status # "hidden"
<1>1. batch \in [row : UNION {[ids -> Outcomes] : ids \in SUBSET Notifs},
                 known : SUBSET Channel, open : BOOLEAN]
  BY BatchForms DEF AlertTypeOK
<1>2. \A n \in DOMAIN batch.row : n \in Notifs /\ notif[n].status # "hidden"
  BY Types DEF AlertsInv, HiddenInv
<1> QED BY <1>1, <1>2 DEF AlertsInv

LEMMA StillResend ==
  ASSUME AlertTypeOK, AlertsInv
  PROVE  \/ resending = NoResend
         \/ /\ resending \in [id : Notifs, outcome : Alerted \union AlertEnds, attempts : Nat]
            /\ notif[resending.id].status # "hidden"
  BY DEF AlertTypeOK, AlertsInv, HiddenInv

LEMMA NoBatchIs ==
  /\ NoBatch \in [row : UNION {[ids -> Outcomes] : ids \in SUBSET Notifs},
                  known : SUBSET Channel, open : BOOLEAN]
  /\ DOMAIN NoBatch.row = {}
<1>1. NoBatch.row = <<>> /\ NoBatch.known = {} /\ NoBatch.open = FALSE
  BY DEF NoBatch
<1>2. <<>> = [n \in {} |-> 0] /\ DOMAIN <<>> = {}
  OBVIOUS
<1>3. <<>> \in [{} -> Outcomes]
  BY <1>2
<1>4. <<>> \in UNION {[ids -> Outcomes] : ids \in SUBSET Notifs}
  BY <1>3
<1> QED BY <1>1, <1>2, <1>4 DEF NoBatch

LEMMA CollectKeeps == ASSUME AlertTypeOK, AlertsInv, Collect PROVE AlertTypeOK' /\ AlertsInv'
<1>1. UNCHANGED <<notif, emitting, resending, received, excused>> /\ ~batch.open
  BY DEF Collect
<1>2. batch' = [row |-> [n \in ToSend |-> [status |-> "unsent", attempts |-> notif[n].attempts]],
                known |-> {c \in Channel : ~channel[c].gone}, open |-> TRUE]
  BY DEF Collect
<1>3. \A n \in ToSend : n \in Notifs /\ notif[n].status \in Alerted
  BY DEF ToSend, Candidates, Oldest
<1>4. batch' \in [row : UNION {[ids -> Outcomes] : ids \in SUBSET Notifs},
                  known : SUBSET Channel, open : BOOLEAN]
  <2>1. batch'.row = [n \in ToSend |-> [status |-> "unsent", attempts |-> notif[n].attempts]]
    BY <1>2
  <2>2. ASSUME NEW n \in ToSend PROVE batch'.row[n] \in Outcomes
    <3>1. notif[n].attempts \in Nat
      BY <1>3, RowTypes DEF AlertRow
    <3>2. batch'.row[n] = [status |-> "unsent", attempts |-> notif[n].attempts]
      BY <2>1
    <3> QED BY <3>1, <3>2 DEF Outcomes
  <2>3. batch'.row \in [ToSend -> Outcomes]
    BY <2>1, <2>2
  <2>4. batch'.row \in UNION {[ids -> Outcomes] : ids \in SUBSET Notifs}
    BY <2>3, <1>3
  <2>5. batch'.known \subseteq Channel /\ batch'.open = TRUE
    BY <1>2
  <2>6. batch' = [row |-> batch'.row, known |-> batch'.known, open |-> batch'.open]
    BY <1>2
  <2> QED BY <2>4, <2>5, <2>6
<1>5. DOMAIN batch'.row = ToSend /\ batch'.open = TRUE
  BY <1>2
<1>6. \A n \in DOMAIN batch'.row : n \in Notifs /\ notif[n].status # "hidden"
  BY <1>3, <1>5 DEF Alerted
<1>7. Worked
  BY <1>1, <1>4, <1>5, <1>6, StillResend, Types DEF Worked
<1>8. ASSUME NEW n \in Notifs PROVE Spare(n)'
  <2>1. Sent = {} /\ Unsent = {}
    BY <1>1 DEF AlertsInv, Sent, Unsent
  <2>2. Sent' = {} /\ Unsent' = ToSend
    BY <1>2, <1>5 DEF Sent, Unsent
  <2>3. Owed(n)' = Owed(n)
    BY <1>1, <1>3, <2>1, <2>2 DEF Owed
  <2>4. Reopens(n)' = Reopens(n)
    BY <1>1 DEF Reopens
  <2> QED BY <1>1, <2>3, <2>4, Before DEF Spare
<1> QED BY <1>7, <1>8, WorkedKeeps

LEMMA CommitsKeep == ASSUME AlertTypeOK, AlertsInv, DispatchCommits PROVE AlertTypeOK' /\ AlertsInv'
<1>1. UNCHANGED <<emitting, resending, received, excused>> /\ batch' = NoBatch /\ Unsent = {}
  BY DEF DispatchCommits
<1>2. notif' = [n \in Notifs |->
         IF n \in DOMAIN batch.row
         THEN [notif[n] EXCEPT !.status = batch.row[n].status, !.attempts = batch.row[n].attempts, !.cooling = TRUE]
         ELSE notif[n]]
  BY DEF DispatchCommits, Written
<1>3. ASSUME NEW n \in DOMAIN batch.row
      PROVE  /\ n \in Notifs /\ n \in Sent
             /\ batch.row[n].status \in Alerted \union AlertEnds /\ batch.row[n].attempts \in Nat
  <2>1. batch.row[n] \in Outcomes /\ n \in Notifs
    BY Types
  <2>2. n \notin Unsent
    BY <1>1
  <2> QED BY <2>1, <2>2 DEF Outcomes, Unsent, Sent
<1>4. ASSUME NEW n \in Notifs
      PROVE  /\ notif'[n] \in AlertRow
             /\ notif'[n].status = IF n \in DOMAIN batch.row THEN batch.row[n].status ELSE notif[n].status
  <2>1. notif[n] \in AlertRow
    BY RowTypes
  <2>2. CASE n \in DOMAIN batch.row
    <3>1. notif'[n] = [notif[n] EXCEPT !.status = batch.row[n].status, !.attempts = batch.row[n].attempts,
                                       !.cooling = TRUE]
      BY <1>2, <2>2
    <3>2. batch.row[n].status \in AlertStatus /\ batch.row[n].attempts \in Nat
      BY <1>3, <2>2 DEF AlertStatus
    <3>3. PICK s \in AlertStatus, k \in Nat : s = batch.row[n].status /\ k = batch.row[n].attempts
      BY <3>2
    <3>4. [notif[n] EXCEPT !.status = s, !.attempts = k, !.cooling = TRUE] \in AlertRow
          /\ [notif[n] EXCEPT !.status = s, !.attempts = k, !.cooling = TRUE].status = s
      BY <2>1 DEF AlertRow
    <3> QED BY <2>2, <3>1, <3>3, <3>4
  <2>3. CASE n \notin DOMAIN batch.row
    BY <1>2, <2>1, <2>3
  <2> QED BY <2>2, <2>3
<1>5. Len(notif) \in Nat /\ Notifs = 1..Len(notif)
  BY Types
<1>6. notif' = [n \in 1..Len(notif) |-> notif'[n]]
  BY <1>2, <1>5
<1>7. notif' \in Seq(AlertRow) /\ Len(notif') = Len(notif)
  BY <1>4, <1>5, <1>6, FunctionIsSeq
<1>8. \A n \in Notifs : notif'[n].status = "hidden" <=> notif[n].status = "hidden"
  <2>1. \A n \in DOMAIN batch.row : notif[n].status # "hidden"
    BY StillBatch
  <2> QED BY <1>3, <1>4, <2>1 DEF Alerted, AlertEnds
<1>9. Worked
  BY <1>1, <1>7, <1>8, NoBatchIs, StillResend, Types DEF Worked
<1>10. ASSUME NEW n \in Notifs PROVE Spare(n)'
  <2>1. Sent' = {} /\ Unsent' = {}
    BY <1>1, NoBatchIs DEF Sent, Unsent
  <2>2. Sent = DOMAIN batch.row
    BY <1>1 DEF Sent
  <2>3. Owed(n)' = IF notif'[n].status \in Alerted \union {"hidden"} THEN 1 ELSE 0
    BY <2>1 DEF Owed
  <2>4. Owed(n)' <= Owed(n)
    <3>1. CASE n \in DOMAIN batch.row
      <4>1. notif'[n].status = batch.row[n].status
        BY <1>4, <3>1
      <4>2. Owed(n) = IF batch.row[n].status = "sent" THEN 0 ELSE 1
        BY <3>1, <2>2 DEF Owed
      <4>3. "sent" \notin Alerted \union {"hidden"}
        BY DEF Alerted
      <4> QED BY <4>1, <4>2, <4>3, <2>3
    <3>2. CASE n \notin DOMAIN batch.row
      <4>1. notif'[n].status = notif[n].status
        BY <1>4, <3>2
      <4>2. Owed(n) = IF notif[n].status \in Alerted \union {"hidden"} THEN 1 ELSE 0
        BY <1>1, <3>2, <2>2 DEF Owed
      <4> QED BY <4>1, <4>2, <2>3
    <3> QED BY <3>1, <3>2
  <2>5. Owed(n)' \in 0..1
    BY <2>3
  <2>6. Reopens(n)' = Reopens(n)
    BY <1>1 DEF Reopens
  <2>7. received'[n] = received[n] /\ excused'[n] = excused[n]
    BY <1>1
  <2> QED BY <2>4, <2>5, <2>6, <2>7, Before DEF Spare
<1> QED BY <1>9, <1>10, WorkedKeeps

LEMMA LostKeeps == ASSUME AlertTypeOK, AlertsInv, DispatchIsLost PROVE AlertTypeOK' /\ AlertsInv'
<1>1. UNCHANGED <<notif, emitting, resending, received>> /\ batch' = NoBatch
  BY DEF DispatchIsLost
<1>2. excused' = [n \in Notifs |-> excused[n] + IF n \in Sent THEN 1 ELSE 0]
  BY DEF DispatchIsLost
<1>3. Len(notif) \in Nat /\ Notifs = 1..Len(notif)
  BY Types
<1>4. ASSUME NEW n \in Notifs
      PROVE  excused'[n] \in Nat /\ excused'[n] = excused[n] + IF n \in Sent THEN 1 ELSE 0
  BY <1>2, RowTypes
<1>5. excused' = [n \in 1..Len(notif) |-> excused'[n]]
  BY <1>2, <1>3
<1>6. excused' \in Seq(Nat) /\ Len(excused') = Len(notif)
  BY <1>3, <1>4, <1>5, FunctionIsSeq
<1>7. Worked
  BY <1>1, <1>6, NoBatchIs, StillResend, Types DEF Worked
<1>8. ASSUME NEW n \in Notifs PROVE Spare(n)'
  <2>1. Sent' = {} /\ Unsent' = {}
    BY <1>1, NoBatchIs DEF Sent, Unsent
  <2>2. Owed(n)' = IF notif[n].status \in Alerted \union {"hidden"} THEN 1 ELSE 0
    BY <1>1, <2>1 DEF Owed
  <2>3. n \notin Sent => Owed(n)' <= Owed(n)
    BY <2>2 DEF Owed
  <2>4. Owed(n)' \in 0..1
    BY <2>2
  <2>5. Reopens(n)' = Reopens(n)
    BY <1>1 DEF Reopens
  <2> QED BY <1>1, <1>4, <2>3, <2>4, <2>5, Before DEF Spare
<1> QED BY <1>7, <1>8, WorkedKeeps

LEMMA DeliverKeeps == ASSUME AlertTypeOK, AlertsInv, Deliver PROVE AlertTypeOK' /\ AlertsInv'
<1>1. UNCHANGED <<notif, emitting, resending, excused>>
  BY DEF Deliver
<1>2. PICK n \in Unsent, accepted \in BOOLEAN :
        LET reached == notif[n].channel \in batch.known
            attempts == batch.row[n].attempts + IF reached THEN 1 ELSE 0
        IN /\ accepted => reached
           /\ batch' = [batch EXCEPT !.row[n] =
                [status |-> IF reached THEN Outcome(accepted, attempts) ELSE "dead", attempts |-> attempts]]
           /\ Accepted(n, accepted)
  BY DEF Deliver
<1>3. n \in DOMAIN batch.row /\ batch.row[n].status = "unsent" /\ n \in Notifs /\ n \notin Sent
  BY Types DEF Unsent, Sent
<1>4. batch.row[n].attempts \in Nat
  BY <1>3, Types DEF Outcomes
<1>5. PICK k \in Nat, status \in Alerted \union AlertEnds :
        /\ batch' = [batch EXCEPT !.row[n] = [status |-> status, attempts |-> k]]
        /\ status = "sent" <=> accepted
  <2> DEFINE reached == notif[n].channel \in batch.known
             k == batch.row[n].attempts + IF reached THEN 1 ELSE 0
             status == IF reached THEN Outcome(accepted, k) ELSE "dead"
  <2>1. batch' = [batch EXCEPT !.row[n] = [status |-> status, attempts |-> k]] /\ (accepted => reached)
    BY <1>2
  <2>2. k \in Nat
    BY <1>4
  <2>3. CASE reached
    BY <2>1, <2>2, <2>3, OutcomeIs
  <2>4. CASE ~reached
    <3>1. status = "dead" /\ "dead" \in Alerted \union AlertEnds /\ accepted = FALSE
      BY <2>1, <2>4 DEF AlertEnds
    <3> HIDE DEF k, status
    <3> QED BY <2>1, <2>2, <3>1
  <2> QED BY <2>3, <2>4
<1>6. received' = [received EXCEPT ![n] = @ + IF accepted THEN 1 ELSE 0]
  BY <1>2 DEF Accepted
<1> DEFINE row == [batch.row EXCEPT ![n] = [status |-> status, attempts |-> k]]
<1>7. batch' = [row |-> row, known |-> batch.known, open |-> batch.open]
  <2>1. batch = [row |-> batch.row, known |-> batch.known, open |-> batch.open]
    BY Types
  <2> QED BY <1>5, <2>1
<1>8. batch.row \in [DOMAIN batch.row -> Outcomes] /\ batch.known \subseteq Channel /\ batch.open \in BOOLEAN
      /\ DOMAIN batch.row \subseteq Notifs
  BY Types
<1>9. [status |-> status, attempts |-> k] \in Outcomes
  BY DEF Outcomes
<1>10. row \in [DOMAIN batch.row -> Outcomes] /\ DOMAIN row = DOMAIN batch.row
  BY <1>8, <1>9
<1>11. row[n] = [status |-> status, attempts |-> k] /\ \A m \in DOMAIN batch.row : m # n => row[m] = batch.row[m]
  BY <1>3, <1>8
<1> HIDE DEF row
<1>12. batch'.row = row /\ batch'.open = batch.open
  BY <1>7
<1>13. Worked
  <2>1. batch' \in [row : UNION {[ids -> Outcomes] : ids \in SUBSET Notifs}, known : SUBSET Channel, open : BOOLEAN]
    <3>1. row \in UNION {[ids -> Outcomes] : ids \in SUBSET Notifs}
      BY <1>8, <1>10
    <3> QED BY <1>7, <1>8, <3>1
  <2>2. \A m \in DOMAIN batch'.row : m \in Notifs /\ notif[m].status # "hidden"
    BY <1>10, <1>12, StillBatch
  <2>3. ~batch'.open => DOMAIN batch'.row = {}
    BY <1>10, <1>12, StillBatch
  <2>4. received' \in Seq(Nat) /\ Len(received') = Len(notif)
    <3>1. received \in Seq(Nat) /\ Len(received) = Len(notif) /\ n \in 1..Len(notif)
      BY <1>3, Types
    <3>2. received[n] + (IF accepted THEN 1 ELSE 0) \in Nat
      BY <1>3, RowTypes
    <3>3. received' \in Seq(Nat) /\ Len(received') = Len(received)
      BY ONLY <1>6, <3>1, <3>2
    <3> QED BY <3>1, <3>3
  <2> QED BY <1>1, <2>1, <2>2, <2>3, <2>4, StillResend, Types DEF Worked
<1>14. ASSUME NEW m \in Notifs PROVE Spare(m)'
  <2>1. received'[m] = received[m] + IF m = n /\ accepted THEN 1 ELSE 0
    BY <1>3, <1>6, Types
  <2>2. Reopens(m)' = Reopens(m)
    BY <1>1 DEF Reopens
  <2>3. CASE m = n
    <3>1. n \in Sent'
      BY <1>3, <1>10, <1>11, <1>12 DEF Sent, Unsent, Alerted, AlertEnds
    <3>2. Owed(n)' = IF accepted THEN 0 ELSE 1
      <4>1. batch'.row[n].status = status
        BY <1>11, <1>12
      <4>2. Owed(n)' = IF status = "sent" THEN 0 ELSE 1
        BY <3>1, <4>1 DEF Owed
      <4> QED BY <1>5, <4>2
    <3>3. Owed(n) = 1
      BY <1>3 DEF Owed
    <3> QED BY <1>1, <2>1, <2>2, <2>3, <3>2, <3>3, Before DEF Spare
  <2>4. CASE m # n
    <3>1. m \in Sent' <=> m \in Sent
      BY <2>4, <1>10, <1>11, <1>12 DEF Sent, Unsent
    <3>2. m \in Unsent' <=> m \in Unsent
      BY <2>4, <1>10, <1>11, <1>12 DEF Unsent
    <3>3. m \in Sent => batch'.row[m] = batch.row[m]
      BY <2>4, <1>11, <1>12 DEF Sent
    <3>4. Owed(m)' = Owed(m)
      BY <1>1, <3>1, <3>2, <3>3 DEF Owed
    <3> QED BY <1>1, <2>1, <2>2, <2>4, <3>4, Before DEF Spare
  <2> QED BY <2>3, <2>4
<1> QED BY <1>13, <1>14, WorkedKeeps

LEMMA ResendKeeps ==
  ASSUME AlertTypeOK, AlertsInv, NEW n \in Notifs, Resend(n) PROVE AlertTypeOK' /\ AlertsInv'
<1>1. UNCHANGED <<notif, emitting, batch>> /\ resending.id = 0 /\ notif[n].status # "hidden"
  BY DEF Resend
<1>2. PICK accepted \in BOOLEAN :
        /\ resending' = [id |-> n, outcome |-> Outcome(accepted, notif[n].attempts + 1),
                         attempts |-> notif[n].attempts + 1]
        /\ received' = [received EXCEPT ![n] = @ + IF accepted THEN 1 ELSE 0]
  BY DEF Resend, Accepted
<1>3. excused' = [excused EXCEPT ![n] = @ + 1]
  BY DEF Resend
<1>4. received \in Seq(Nat) /\ excused \in Seq(Nat) /\ Len(received) = Len(notif) /\ Len(excused) = Len(notif)
      /\ n \in 1..Len(notif)
  BY Types
<1>5. received[n] + (IF accepted THEN 1 ELSE 0) \in Nat /\ excused[n] + 1 \in Nat
  BY RowTypes
<1>6. /\ received' \in Seq(Nat) /\ Len(received') = Len(notif)
      /\ \A m \in 1..Len(notif) : received'[m] = received[m] + IF m = n /\ accepted THEN 1 ELSE 0
  <2> DEFINE d == IF accepted THEN 1 ELSE 0
  <2>1. received' = [received EXCEPT ![n] = received[n] + d] /\ d \in Nat /\ received[n] + d \in Nat
    BY <1>2, <1>5
  <2> HIDE DEF d
  <2>2. received' \in Seq(Nat) /\ Len(received') = Len(received)
    BY ONLY <1>4, <2>1
  <2>3. \A m \in 1..Len(notif) : received'[m] = IF m = n THEN received[m] + d ELSE received[m]
    BY ONLY <1>4, <2>1
  <2>4. \A m \in 1..Len(notif) : received[m] + 0 = received[m]
    BY ONLY <1>4
  <2>5. d = IF accepted THEN 1 ELSE 0
    BY DEF d
  <2> QED BY <1>4, <2>2, <2>3, <2>4, <2>5
<1>7. /\ excused' \in Seq(Nat) /\ Len(excused') = Len(notif)
      /\ \A m \in 1..Len(notif) : excused'[m] = excused[m] + IF m = n THEN 1 ELSE 0
  BY ONLY <1>3, <1>4, <1>5
<1>8. /\ resending'.id = n /\ resending'.outcome = Outcome(accepted, notif[n].attempts + 1)
      /\ resending' \in [id : Notifs, outcome : Alerted \union AlertEnds, attempts : Nat]
  <2>1. notif[n].attempts \in Nat
    BY RowTypes DEF AlertRow
  <2>2. Outcome(accepted, notif[n].attempts + 1) \in Alerted \union AlertEnds
    BY OutcomeIs
  <2> QED BY <1>2, <2>1, <2>2
<1>9. Worked
  BY <1>1, <1>6, <1>7, <1>8, StillBatch, Types DEF Worked
<1>10. ASSUME NEW m \in Notifs PROVE Spare(m)'
  <2>1. m \in 1..Len(notif) /\ m # 0
    BY Types
  <2>2. Owed(m)' = Owed(m)
    BY <1>1 DEF Owed, Sent, Unsent
  <2>3. Reopens(m) = 0
    BY <1>1, <2>1 DEF Reopens
  <2>4. Reopens(m)' = IF m = n /\ ~accepted THEN 1 ELSE 0
    BY <1>8, OutcomeIs DEF Reopens
  <2>5. received'[m] = received[m] + IF m = n /\ accepted THEN 1 ELSE 0
    BY <1>6, <2>1
  <2>6. excused'[m] = excused[m] + IF m = n THEN 1 ELSE 0
    BY <1>7, <2>1
  <2> QED BY <2>2, <2>3, <2>4, <2>5, <2>6, Before DEF Spare
<1> QED BY <1>9, <1>10, WorkedKeeps

LEMMA ResendCommitsKeeps ==
  ASSUME AlertTypeOK, AlertsInv, ResendCommits PROVE AlertTypeOK' /\ AlertsInv'
<1> DEFINE n == resending.id
<1>1. UNCHANGED <<emitting, batch, received, excused>> /\ n # 0 /\ resending' = NoResend
  BY DEF ResendCommits
<1>2. notif' = [notif EXCEPT ![n].status = resending.outcome, ![n].cooling = TRUE,
                             ![n].attempts = resending.attempts]
  BY DEF ResendCommits
<1>3. /\ n \in Notifs /\ resending.outcome \in Alerted \union AlertEnds /\ resending.attempts \in Nat
      /\ notif[n].status # "hidden"
  BY <1>1, StillResend DEF NoResend
<1>4. notif \in Seq(AlertRow) /\ n \in 1..Len(notif) /\ notif[n] \in AlertRow
  BY <1>3, Types, RowTypes
<1> HIDE DEF n
<1>5. PICK e \in AlertRow : notif' = [notif EXCEPT ![n] = e] /\ e.status = resending.outcome
  <2> DEFINE e == [notif[n] EXCEPT !.status = resending.outcome, !.cooling = TRUE, !.attempts = resending.attempts]
  <2>1. notif' = [notif EXCEPT ![n] = e]
    BY <1>2, <1>4
  <2>2. resending.outcome \in AlertStatus
    BY <1>3 DEF AlertStatus
  <2>3. e \in AlertRow /\ e.status = resending.outcome
    BY <1>3, <1>4, <2>2 DEF AlertRow
  <2> QED BY <2>1, <2>3
<1>6. /\ notif' \in Seq(AlertRow) /\ Len(notif') = Len(notif) /\ notif'[n] = e
      /\ \A m \in 1..Len(notif) : m # n => notif'[m] = notif[m]
  BY ONLY <1>4, <1>5
<1>7. \A m \in Notifs : notif'[m].status = "hidden" <=> notif[m].status = "hidden"
  BY <1>3, <1>5, <1>6, Types DEF Alerted, AlertEnds
<1>8. Worked
  BY <1>1, <1>6, <1>7, StillBatch, Types DEF Worked
<1>9. ASSUME NEW m \in Notifs PROVE Spare(m)'
  <2>1. m \in 1..Len(notif) /\ m # 0
    BY Types
  <2>2. Reopens(m)' = 0
    BY <1>1, <2>1 DEF Reopens, NoResend
  <2>3. received'[m] = received[m] /\ excused'[m] = excused[m]
    BY <1>1
  <2>4. CASE m = n
    <3>1. notif'[m].status = resending.outcome
      BY <1>5, <1>6, <2>4
    <3>2. CASE resending.outcome = "sent"
      <4>1. Owed(m)' <= Owed(m) /\ Owed(m)' \in 0..1
        BY <1>1, <3>1, <3>2 DEF Owed, Sent, Unsent, Alerted
      <4> QED BY <2>2, <2>3, <4>1, Before DEF Spare
    <3>3. CASE resending.outcome # "sent"
      <4>1. Reopens(m) = 1
        BY <2>4, <3>3 DEF Reopens, n
      <4>2. Owed(m)' \in 0..1
        BY DEF Owed
      <4>3. received[m] <= excused[m]
        BY <4>1, Before
      <4> QED BY <2>2, <2>3, <4>2, <4>3, RowTypes DEF Spare
    <3> QED BY <3>2, <3>3
  <2>5. CASE m # n
    <3>1. Owed(m)' = Owed(m)
      BY <1>1, <1>6, <2>1, <2>5 DEF Owed, Sent, Unsent
    <3> QED BY <2>2, <2>3, <3>1, Before DEF Spare
  <2> QED BY <2>4, <2>5
<1> QED BY <1>8, <1>9, WorkedKeeps

LEMMA EmitKeeps ==
  ASSUME AlertTypeOK, AlertsInv, NEW event \in DOMAIN Event, NEW status \in {"hidden", "pending"},
         Add(Queued(event, status)), UNCHANGED <<batch, resending>>,
         \/ emitting' = emitting
         \/ /\ status = "hidden"
            /\ \E p \in Emitter : emitting' = [emitting EXCEPT ![p] = (Len(notif) + 1)..Len(notif')]
  PROVE  AlertTypeOK' /\ AlertsInv'
<1> DEFINE rows == Queued(event, status)
           zeros == [i \in 1..Len(rows) |-> 0]
<1>1. rows \in Seq(AlertRow) /\ \A i \in 1..Len(rows) : rows[i].status = status
  BY QueuedRows
<1>2. /\ Len(notif) + Len(rows) <= MaxNotifs
      /\ notif' = notif \o rows /\ received' = received \o zeros /\ excused' = excused \o zeros
  BY DEF Add
<1> HIDE DEF rows
<1>3. zeros \in Seq(Nat) /\ Len(zeros) = Len(rows) /\ \A i \in 1..Len(rows) : zeros[i] = 0
  <2>1. Len(rows) \in Nat
    BY <1>1
  <2> QED BY ONLY <2>1
<1> HIDE DEF zeros
<1>4. Added(rows, zeros, zeros)
  BY <1>1, <1>2, <1>3 DEF Added
<1> QED BY <1>4, AddedKeep

LEMMA TestKeeps ==
  ASSUME AlertTypeOK, AlertsInv, NEW c \in Channel, TestChannel(c) PROVE AlertTypeOK' /\ AlertsInv'
<1>1. UNCHANGED <<emitting, batch, resending>> /\ Len(notif) < MaxNotifs
  BY DEF TestChannel
<1>2. PICK accepted \in BOOLEAN :
      /\ notif' = Append(notif, [channel |-> c, event |-> "TEST", status |-> Outcome(accepted, 1),
                                 attempts |-> 1, cooling |-> TRUE, recent |-> TRUE])
      /\ received' = Append(received, IF accepted THEN 1 ELSE 0)
  BY DEF TestChannel
<1> DEFINE row == [channel |-> c, event |-> "TEST", status |-> Outcome(accepted, 1),
                   attempts |-> 1, cooling |-> TRUE, recent |-> TRUE]
           got == IF accepted THEN 1 ELSE 0
<1>3. row \in AlertRow /\ row.status = Outcome(accepted, 1)
  <2>1. Outcome(accepted, 1) \in AlertStatus
    BY OutcomeIs DEF AlertStatus
  <2> QED BY <2>1 DEF AlertRow
<1>4. got \in Nat /\ got <= IF row.status \in Alerted \union {"hidden"} THEN 0 ELSE 1
  BY OutcomeIs DEF Alerted
<1>5. notif' = Append(notif, row) /\ received' = Append(received, got) /\ excused' = Append(excused, 0)
  BY <1>2 DEF TestChannel
<1> HIDE DEF row, got
<1>6. /\ <<row>> \in Seq(AlertRow) /\ Len(<<row>>) = 1 /\ <<row>>[1] = row
      /\ <<got>> \in Seq(Nat) /\ Len(<<got>>) = 1 /\ <<got>>[1] = got
      /\ <<0>> \in Seq(Nat) /\ Len(<<0>>) = 1 /\ <<0>>[1] = 0
  BY <1>3, <1>4
<1>7. notif' = notif \o <<row>> /\ received' = received \o <<got>> /\ excused' = excused \o <<0>>
  <2>1. notif \in Seq(AlertRow) /\ received \in Seq(Nat) /\ excused \in Seq(Nat)
    BY Types
  <2>2. Append(notif, row) = notif \o <<row>>
    BY ONLY <1>3, <2>1
  <2>3. Append(received, got) = received \o <<got>>
    BY ONLY <1>4, <2>1
  <2>4. Append(excused, 0) = excused \o <<0>>
    BY ONLY <2>1
  <2> QED BY <1>5, <2>2, <2>3, <2>4
<1>8. Len(notif) + 1 <= MaxNotifs
  BY <1>1, Types, AlertsAssumption
<1>9. \A i \in 1..1 : i = 1
  OBVIOUS
<1>10. Added(<<row>>, <<got>>, <<0>>)
  BY <1>1, <1>4, <1>6, <1>7, <1>8, <1>9 DEF Added
<1> QED BY <1>10, AddedKeep

\* What no notification and no delivery depends on.
LEMMA QuietKeeps ==
  ASSUME AlertTypeOK, AlertsInv, UNCHANGED <<notif, emitting, batch, resending, received, excused>>
  PROVE  AlertTypeOK' /\ AlertsInv'
<1>1. Notifs' = Notifs
  BY DEF Notifs
<1>2. AlertTypeOK'
  BY <1>1 DEF AlertTypeOK
<1>3. HiddenInv' /\ (~batch'.open => DOMAIN batch'.row = {})
  BY DEF AlertsInv, HiddenInv
<1>4. ASSUME NEW n \in Notifs PROVE Spare(n)'
  <2>1. Spare(n)
    BY DEF AlertsInv
  <2> QED BY <2>1 DEF Spare, Owed, Reopens, Sent, Unsent
<1> QED BY <1>1, <1>2, <1>3, <1>4 DEF AlertsInv

-----------------------------------------------------------------------------
(* The invariant *)

LEMMA AlertInitKeeps == ASSUME AlertInit PROVE AlertTypeOK /\ AlertsInv
<1>1. notif = <<>> /\ received = <<>> /\ excused = <<>> /\ batch = NoBatch /\ resending = NoResend
  BY DEF AlertInit
<1>2. Notifs = {} /\ Len(notif) = 0 /\ Len(received) = 0 /\ Len(excused) = 0
  BY <1>1 DEF Notifs
<1>3. emitting \in [Emitter -> SUBSET Notifs] /\ \A p \in Emitter : emitting[p] = {}
  BY DEF AlertInit
<1>4. notif \in Seq(AlertRow) /\ received \in Seq(Nat) /\ excused \in Seq(Nat)
  BY <1>1
<1>5. AlertTypeOK
  <2>1. /\ batch \in [row : {batch.row}, known : SUBSET Channel, open : BOOLEAN]
        /\ DOMAIN batch.row \subseteq Notifs /\ batch.row \in [DOMAIN batch.row -> Outcomes]
    BY <1>1, NoBatchIs, BatchForms
  <2>2. Len(notif) <= MaxNotifs
    BY <1>2, AlertsAssumption
  <2> QED BY <1>1, <1>2, <1>3, <1>4, <2>1, <2>2 DEF AlertTypeOK
<1>6. DOMAIN batch.row = {}
  BY <1>1, NoBatchIs
<1>7. HiddenInv
  BY <1>1, <1>3, <1>6 DEF HiddenInv
<1> QED BY <1>2, <1>5, <1>6, <1>7 DEF AlertsInv

LEMMA AlertNextKeeps ==
  ASSUME AlertTypeOK, AlertsInv, [AlertNext]_alertVars PROVE AlertTypeOK' /\ AlertsInv'
<1>1. CASE UNCHANGED alertVars
  BY <1>1, QuietKeeps DEF alertVars
<1>2. ASSUME NEW p \in Emitter, NEW e \in DOMAIN Event, Emit(p, e) PROVE AlertTypeOK' /\ AlertsInv'
  <2>1. /\ Add(Queued(e, "hidden")) /\ UNCHANGED <<batch, resending>>
        /\ emitting' = [emitting EXCEPT ![p] = (Len(notif) + 1)..Len(notif')]
    BY <1>2 DEF Emit
  <2> QED BY <2>1, EmitKeeps
<1>3. ASSUME NEW p \in Emitter, EmitCommits(p) \/ EmitRollsBack(p) PROVE AlertTypeOK' /\ AlertsInv'
  <2>1. EmitEnds(p, "pending") \/ EmitEnds(p, "rolled back")
    BY <1>3 DEF EmitCommits, EmitRollsBack
  <2> QED BY <2>1, EmitEndsKeeps
<1>4. ASSUME NEW e \in DOMAIN Event, Monitor(e) PROVE AlertTypeOK' /\ AlertsInv'
  <2>1. UNCHANGED <<emitting, batch, resending>>
    BY <1>4 DEF Monitor
  <2>2. CASE Add(Queued(e, "pending"))
    BY <2>1, <2>2, EmitKeeps
  <2>3. CASE UNCHANGED <<notif, received, excused>>
    BY <2>1, <2>3, QuietKeeps
  <2> QED BY <1>4, <2>2, <2>3 DEF Monitor
<1>5. CASE Condition \/ Forget
  BY <1>5, QuietKeeps DEF Condition, Forget
<1>6. ASSUME NEW c \in Channel, ChangeChannel(c) PROVE AlertTypeOK' /\ AlertsInv'
  BY <1>6, QuietKeeps DEF ChangeChannel
<1>7. CASE Dispatch
  BY <1>7, CollectKeeps, DeliverKeeps, CommitsKeep DEF Dispatch
<1> QED BY <1>1, <1>2, <1>3, <1>4, <1>5, <1>6, <1>7, LostKeeps, ResendCommitsKeeps, WaitKeeps,
           ResendKeeps, TestKeeps DEF AlertNext

-----------------------------------------------------------------------------
\* Notifications, the batch that the dispatcher sends and the resend that a request has not
\* committed are of rows that exist, whatever emit is rolled back or dispatch lost.
THEOREM AlertsTypeCorrect == AlertSpec => []AlertTypeOK
<1>1. AlertInit => AlertTypeOK /\ AlertsInv
  BY AlertInitKeeps
<1>2. AlertTypeOK /\ AlertsInv /\ [AlertNext]_alertVars => AlertTypeOK' /\ AlertsInv'
  BY AlertNextKeeps
<1> QED BY <1>1, <1>2, PTL DEF AlertSpec

\* dispatch_pending delivers a notification once, but for as many times as it was resent or
\* as a dispatch that had sent it was not committed: for any number of emitters, channels
\* and notifications, with resends that overlap dispatches.
THEOREM AlertsAreSentOnce == AlertSpec => []RepeatedOnlyByAccident
<1>1. AlertInit => AlertTypeOK /\ AlertsInv
  BY AlertInitKeeps
<1>2. AlertTypeOK /\ AlertsInv /\ [AlertNext]_alertVars => AlertTypeOK' /\ AlertsInv'
  BY AlertNextKeeps
<1>3. ASSUME AlertTypeOK, AlertsInv PROVE RepeatedOnlyByAccident
  <2>1. ASSUME NEW n \in Notifs PROVE received[n] <= 1 + excused[n]
    BY <1>3, Before
  <2> QED BY <2>1 DEF RepeatedOnlyByAccident
<1>4. AlertTypeOK /\ AlertsInv => RepeatedOnlyByAccident
  BY <1>3
<1> QED BY <1>1, <1>2, <1>4, PTL DEF AlertSpec
=============================================================================
