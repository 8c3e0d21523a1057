------------------------ MODULE OrchestrationLockProofs ------------------------
(* Theorems about OrchestrationLock, for any number of workers. *)
EXTENDS OrchestrationLock, SequenceTheorems, TLAPS

\* A connection given back to a pool with another one goes behind it.
LEMMA AppendToOne ==
  \A a, b \in Conn : Append(<<a>>, b) = <<a, b>>
<1> SUFFICES ASSUME NEW a \in Conn, NEW b \in Conn PROVE Append(<<a>>, b) = <<a, b>>
  OBVIOUS
<1>1. <<a>> \in Seq(Conn) /\ <<a, b>> \in Seq(Conn) /\ Append(<<a>>, b) \in Seq(Conn)
  OBVIOUS
<1>2. Len(Append(<<a>>, b)) = 2 /\ Len(<<a, b>>) = 2
  BY <1>1, AppendProperties
<1>3. \A i \in 1..2 : Append(<<a>>, b)[i] = <<a, b>>[i]
  BY <1>1, AppendProperties
<1> QED
  BY <1>1, <1>2, <1>3, SeqEqual

\* How QueuePool hands connections out and takes them back.
LEMMA PoolFacts ==
  /\ \A pool \in Pool, c \in Conn : Used(pool, c) \in Pool /\ Used(pool, c) # <<>>
  /\ \A pool \in Pool \ {<<>>} :
       Head(pool) \in Conn /\ Tail(pool) \in {<<>>, <<3 - Head(pool)>>}
  /\ \A c \in Conn : /\ Used(<<>>, 3 - c) = <<3 - c>>
                     /\ Used(<<3 - c>>, 3 - c) = <<3 - c>>
                     /\ Append(<<3 - c>>, c) \in Pool /\ Append(<<3 - c>>, c) # <<>>
<1>1. \A a \in Conn : Head(<<a>>) = a /\ Tail(<<a>>) = <<>> /\ <<a>> # <<>>
  OBVIOUS
<1>2. \A a, b \in Conn : Head(<<a, b>>) = a /\ Tail(<<a, b>>) = <<b>> /\ <<a, b>> # <<>>
  OBVIOUS
<1>3. \A a \in Conn : Append(<<>>, a) = <<a>>
  OBVIOUS
<1>4. \A pool \in Pool : pool = <<>> \/ \E c \in Conn : pool = <<c>> \/ pool = <<c, 3 - c>>
  BY DEF Pool, Conn
<1>5. \A c \in Conn : 3 - c \in Conn /\ {<<c>>, <<c, 3 - c>>, <<3 - c, c>>} \subseteq Pool
  BY DEF Pool, Conn
<1>6. \A pool \in Pool, c \in Conn : Used(pool, c) \in Pool /\ Used(pool, c) # <<>>
  <2> SUFFICES ASSUME NEW pool \in Pool, NEW c \in Conn
               PROVE  Used(pool, c) \in Pool /\ Used(pool, c) # <<>>
    OBVIOUS
  <2>1. CASE pool = <<>>
    BY <2>1, <1>1, <1>5 DEF Used
  <2>2. ASSUME NEW d \in Conn, pool = <<d>> PROVE Used(pool, c) = <<d>>
    BY <2>2, <1>1, <1>3 DEF Used
  <2>3. ASSUME NEW d \in Conn, pool = <<d, 3 - d>> PROVE Used(pool, c) = <<3 - d, d>>
    BY <2>3, <1>2, <1>5, AppendToOne DEF Used
  <2>4. CASE \E d \in Conn : pool = <<d>>
    BY <2>2, <2>4, <1>1, <1>5
  <2>5. CASE \E d \in Conn : pool = <<d, 3 - d>>
    <3>1. PICK d \in Conn : pool = <<d, 3 - d>>
      BY <2>5
    <3>2. Used(pool, c) = <<3 - d, d>> /\ <<3 - d, d>> \in Pool /\ <<3 - d, d>> # <<>>
      BY <2>3, <3>1, <1>2, <1>5
    <3> QED
      BY <3>2
  <2> QED
    BY <2>1, <2>4, <2>5, <1>4
<1>7. \A pool \in Pool \ {<<>>} :
        Head(pool) \in Conn /\ Tail(pool) \in {<<>>, <<3 - Head(pool)>>}
  <2> SUFFICES ASSUME NEW pool \in Pool, pool # <<>>
               PROVE  Head(pool) \in Conn /\ Tail(pool) \in {<<>>, <<3 - Head(pool)>>}
    OBVIOUS
  <2>1. PICK d \in Conn : pool = <<d>> \/ pool = <<d, 3 - d>>
    BY <1>4
  <2>2. Head(pool) = d /\ Tail(pool) \in {<<>>, <<3 - d>>}
    <3>1. CASE pool = <<d>>
      BY <3>1, <1>1
    <3>2. CASE pool = <<d, 3 - d>>
      BY <3>2, <1>2, <1>5
    <3> QED
      BY <2>1, <3>1, <3>2
  <2> QED
    BY <2>2
<1>8. \A c \in Conn : /\ Used(<<>>, 3 - c) = <<3 - c>>
                      /\ Used(<<3 - c>>, 3 - c) = <<3 - c>>
                      /\ Append(<<3 - c>>, c) \in Pool /\ Append(<<3 - c>>, c) # <<>>
  <2> SUFFICES ASSUME NEW c \in Conn
               PROVE  /\ Used(<<>>, 3 - c) = <<3 - c>>
                      /\ Used(<<3 - c>>, 3 - c) = <<3 - c>>
                      /\ Append(<<3 - c>>, c) \in Pool /\ Append(<<3 - c>>, c) # <<>>
    OBVIOUS
  <2>1. Used(<<>>, 3 - c) = <<3 - c>>
    BY DEF Used
  <2>2. Used(<<3 - c>>, 3 - c) = <<3 - c>>
    BY <1>1, <1>3, <1>5 DEF Used
  <2>3. Append(<<3 - c>>, c) = <<3 - c, c>>
    BY <1>5, AppendToOne
  <2> QED
    BY <2>1, <2>2, <2>3, <1>2, <1>5
<1> QED
  BY <1>6, <1>7, <1>8

\* Sessions that are opened, used and closed leave the locks as they are.
LEMMA UseStep ==
  ASSUME TypeOK, LockInv, NEW w \in Worker, UseSession(w), UNCHANGED <<lockdb, holds>>,
         NEW label \in Label, pc' = [pc EXCEPT ![w] = label],
         label \in {"work", "overdue"} <=> pc[w] \in {"work", "overdue"},
         UNCHANGED crashes
  PROVE  TypeOK' /\ LockInv'
<1> USE DEF TypeOK, LockInv
<1>1. idle'[w] \in Pool /\ idle'[w] # <<>> /\ \A v \in Worker \ {w} : idle'[v] = idle[v]
  BY PoolFacts DEF UseSession, Conn
<1>2. idle' \in [Worker -> Pool] /\ pc' \in [Worker -> Label]
  BY <1>1 DEF UseSession
<1>3. ASSUME pc[w] \in {"work", "overdue"} PROVE idle'[w] = <<3 - lockdb[w]>>
  <2>1. lockdb[w] \in Conn /\ 3 - lockdb[w] = IF lockdb[w] = 1 THEN 2 ELSE 1
    BY <1>3 DEF Conn
  <2>2. idle'[w] = Used(idle[w], 3 - lockdb[w])
    BY <2>1 DEF UseSession
  <2>3. idle[w] = <<3 - lockdb[w]>> \/ idle[w] = <<>>
    BY <1>3
  <2> QED
    BY <2>1, <2>2, <2>3, PoolFacts
<1>4. \A v \in Worker \ {w} : pc'[v] = pc[v]
  OBVIOUS
<1>5. TypeOK'
  BY <1>2
<1>6. pc'[w] = label /\ lockdb' = lockdb /\ holds' = holds
  OBVIOUS
<1>7. \A v \in Worker : pc'[v] \in {"work", "overdue"} => pc[v] \in {"work", "overdue"}
  BY <1>4, <1>6
<1>8. \A v \in Worker : pc'[v] \in {"work", "overdue"} =>
       /\ lockdb'[v] \in Conn /\ holds'[v][lockdb'[v]] > 0
       /\ idle'[v] = <<3 - lockdb'[v]>> \/ (pc'[v] = "work" /\ idle'[v] = <<>>)
  BY <1>1, <1>3, <1>4, <1>6, <1>7
<1> QED
  BY <1>1, <1>4, <1>5, <1>6, <1>8

\* The invariant behind mutual exclusion is kept by every step.
LEMMA LockStep == TypeOK /\ LockInv /\ [Next]_vars => TypeOK' /\ LockInv'
<1> SUFFICES ASSUME TypeOK, LockInv, [Next]_vars PROVE TypeOK' /\ LockInv'
  OBVIOUS
<1> USE OrchestrationAssumption DEF Goto, Label, Orchestrating
<1>1. ASSUME NEW w \in Worker, Heartbeat(w) PROVE TypeOK' /\ LockInv'
  BY <1>1, UseStep DEF Heartbeat
<1>2. ASSUME NEW w \in Worker, Claim(w) PROVE TypeOK' /\ LockInv'
  <2>1. CASE Goto(w, "claim", "lock")
    BY <1>2, <2>1, UseStep DEF Claim
  <2>2. CASE Goto(w, "claim", "job")
    BY <1>2, <2>2, UseStep DEF Claim
  <2> QED
    BY <1>2, <2>1, <2>2 DEF Claim
<1>3. ASSUME NEW w \in Worker, JobCommits(w) PROVE TypeOK' /\ LockInv'
  <2>1. pc' = [pc EXCEPT ![w] = "job"]
    BY <1>3 DEF JobCommits, TypeOK
  <2> QED
    BY <1>3, <2>1, UseStep DEF JobCommits
<1>4. ASSUME NEW w \in Worker, JobDone(w) PROVE TypeOK' /\ LockInv'
  BY <1>4, UseStep DEF JobDone
<1>5. ASSUME NEW w \in Worker, TryLock(w) PROVE TypeOK' /\ LockInv'
  <2> DEFINE c == Head(idle[w])
  <2>1. idle[w] \in Pool /\ idle[w] # <<>> /\ pc[w] = "lock" /\ crashes' = crashes
    BY <1>5 DEF TryLock, TypeOK, LockInv
  <2>2. c \in Conn /\ Tail(idle[w]) \in {<<>>, <<3 - c>>} /\ Tail(idle[w]) \in Pool
    <3>1. c \in Conn /\ Tail(idle[w]) \in {<<>>, <<3 - c>>}
      BY <2>1, PoolFacts
    <3>2. <<>> \in Pool /\ \A d \in Conn : <<3 - d>> \in Pool
      BY DEF Pool, Conn
    <3> QED
      BY <3>1, <3>2
  <2>3. CASE ~Granted(w, c)
    BY <1>5, <2>3, UseStep DEF TryLock
  <2>4. CASE Granted(w, c)
    <3>1. /\ pc' = [pc EXCEPT ![w] = "work"]
          /\ holds' = [holds EXCEPT ![w][c] = @ + 1]
          /\ lockdb' = [lockdb EXCEPT ![w] = c]
          /\ idle' = [idle EXCEPT ![w] = Tail(@)]
          /\ holds[w][c] < MaxNested
      BY <1>5, <2>4 DEF TryLock
    <3> HIDE DEF c
    <3>2. TypeOK'
      BY <2>1, <2>2, <3>1 DEF TypeOK
    <3>3. \A v \in Worker, d \in Conn : holds'[v][d] > 0 => v = w /\ d = c
      BY <2>2, <2>4, <3>1 DEF TypeOK, Granted
    <3>4. /\ holds'[w][c] > 0 /\ lockdb'[w] = c /\ pc'[w] = "work"
          /\ idle'[w] = <<3 - c>> \/ idle'[w] = <<>>
      BY <2>2, <3>1 DEF TypeOK
    <3>5. \A v \in Worker \ {w} : pc'[v] = pc[v] /\ lockdb'[v] = lockdb[v] /\ idle'[v] = idle[v]
      BY <3>1 DEF TypeOK
    <3>6. \A v \in Worker \ {w} : pc[v] \notin {"work", "overdue"}
      BY <2>2, <2>4 DEF TypeOK, LockInv, Granted
    <3> QED
      BY <2>2, <3>2, <3>3, <3>4, <3>5, <3>6 DEF LockInv
  <2> QED
    BY <2>3, <2>4
<1>6. ASSUME NEW w \in Worker, Work(w) PROVE TypeOK' /\ LockInv'
  BY <1>6, UseStep DEF Work
<1>7. ASSUME NEW w \in Worker, OverdueCommits(w) PROVE TypeOK' /\ LockInv'
  <2>1. /\ pc[w] = "overdue" /\ pc' = [pc EXCEPT ![w] = "unlock"]
        /\ lockdb[w] \in Conn /\ idle[w] = <<3 - lockdb[w]>>
        /\ idle' = [idle EXCEPT ![w] = Append(@, lockdb[w])]
        /\ lockdb' = [lockdb EXCEPT ![w] = 0]
        /\ UNCHANGED <<holds, crashes>>
    BY <1>7 DEF OverdueCommits, LockInv
  <2>2. Append(idle[w], lockdb[w]) \in Pool /\ Append(idle[w], lockdb[w]) # <<>>
    BY <2>1, PoolFacts
  <2> QED
    BY <2>1, <2>2 DEF TypeOK, LockInv
<1>8. ASSUME NEW w \in Worker, Unlock(w) PROVE TypeOK' /\ LockInv'
  BY <1>8, PoolFacts DEF Unlock, UseSession, Conn, TypeOK, LockInv
<1>9. ASSUME NEW w \in Worker, Restart(w) PROVE TypeOK' /\ LockInv'
  BY <1>9 DEF Restart, TypeOK, LockInv
<1>10. ASSUME NEW w \in Worker, Crash(w) PROVE TypeOK' /\ LockInv'
  BY <1>10 DEF Crash, Pool, TypeOK, LockInv
<1>11. ASSUME NEW w \in Worker, NEW c \in Conn, Recycle(w, c) PROVE TypeOK' /\ LockInv'
  <2>1. \A v \in Worker, d \in Conn : holds'[v][d] = IF v = w /\ d = c THEN 0 ELSE holds[v][d]
    BY <1>11 DEF Recycle, TypeOK
  <2>2. TypeOK'
    BY <1>11 DEF Recycle, TypeOK
  <2>3. pc[w] \in {"work", "overdue"} => c # lockdb[w]
    <3>1. idle[w] # <<>> /\ Head(idle[w]) = c
      BY <1>11 DEF Recycle
    <3>2. pc[w] \in {"work", "overdue"} => lockdb[w] \in Conn /\ c = 3 - lockdb[w]
      BY <3>1 DEF LockInv
    <3> QED
      BY <3>2 DEF Conn
  <2> QED
    BY <1>11, <2>1, <2>2, <2>3 DEF Recycle, LockInv
<1>12. CASE UNCHANGED vars
  BY <1>12 DEF vars, TypeOK, LockInv
<1> QED
  BY <1>1, <1>2, <1>3, <1>4, <1>5, <1>6, <1>7, <1>8, <1>9, <1>10, <1>11, <1>12 DEF Next, Step

\* Whatever connection the lock leaks to, orchestration is done by one worker at a time.
THEOREM OrchestrationExclusive == Spec => []OneOrchestrator
<1>1. Init => TypeOK /\ LockInv
  BY OrchestrationAssumption DEF Init, TypeOK, LockInv, Label, Pool, Conn
<1>2. LockInv => OneOrchestrator
  BY DEF LockInv, OneOrchestrator
<1>3. QED
  BY <1>1, <1>2, LockStep, PTL DEF Spec
=============================================================================
