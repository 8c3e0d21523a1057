--------------------------- MODULE OrchestrationLock ---------------------------
(***************************************************************************)
(* The advisory lock that serializes orchestration across worker replicas  *)
(* (_run_orchestration in scripts/run_worker.py).  pg_try_advisory_lock    *)
(* belongs to the database session that took it, and a worker's sessions   *)
(* come from a SQLAlchemy QueuePool (core/db.py), first in, first out: a   *)
(* commit gives the connection back, and the next statement of the same    *)
(* ORM session takes whichever connection is next in line.                 *)
(***************************************************************************)
EXTENDS Naturals, Sequences

CONSTANTS
  Worker,     \* the worker replicas
  Hung,       \* those whose subprocess may never end
  MaxNested,  \* bound: times a connection takes the lock before its pool_recycle age
  MaxCrashes  \* bound: crashes of worker processes

ASSUME OrchestrationAssumption ==
  Hung \subseteq Worker /\ MaxNested \in Nat \ {0} /\ MaxCrashes \in Nat

\* A worker opens at most two sessions at a time: lockdb and one inside it.
Conn == {1, 2}
Pool == {<<>>, <<1>>, <<2>>, <<1, 2>>, <<2, 1>>}

VARIABLES
  pc,     \* where each worker's main loop is
  idle,   \* the connections in each worker's pool, the next one to be taken first
  lockdb, \* the connection of the lockdb session (0: none)
  holds,  \* how often each connection has taken the advisory lock (it nests)
  crashes

vars == <<pc, idle, lockdb, holds, crashes>>

\* _run_orchestration has the lock: until the commit inside check_schedule_overdue, and after it.
Orchestrating == {"work", "overdue", "unlock"}
Label == {"heartbeat", "claim", "job", "lock", "down"} \union Orchestrating

TypeOK ==
  /\ pc \in [Worker -> Label]
  /\ idle \in [Worker -> Pool]
  /\ lockdb \in [Worker -> {0} \union Conn]
  /\ holds \in [Worker -> [Conn -> 0..MaxNested]]
  /\ crashes \in 0..MaxCrashes

Init ==
  /\ pc = [w \in Worker |-> "heartbeat"]
  /\ idle = [w \in Worker |-> <<>>]
  /\ lockdb = [w \in Worker |-> 0]
  /\ holds = [w \in Worker |-> [c \in Conn |-> 0]]
  /\ crashes = 0

Goto(w, from, to) == pc[w] = from /\ pc' = [pc EXCEPT ![w] = to]

\* A session that is opened, used and closed (or committed): QueuePool is FIFO, and
\* opens a connection when none is idle.
Used(pool, new) == IF pool = <<>> THEN <<new>> ELSE Append(Tail(pool), Head(pool))
UseSession(w) == idle' = [idle EXCEPT ![w] = Used(@, IF lockdb[w] = 1 THEN 2 ELSE 1)]

Heartbeat(w) ==
  /\ Goto(w, "heartbeat", "claim")
  /\ UseSession(w)
  /\ UNCHANGED <<lockdb, holds, crashes>>

\* The session of _claim_next, closed when nothing is queued, committed otherwise.
Claim(w) ==
  /\ Goto(w, "claim", "lock") \/ Goto(w, "claim", "job")
  /\ UseSession(w)
  /\ UNCHANGED <<lockdb, holds, crashes>>

\* _run_one commits any number of times on the same session: its logs, its heartbeats ...
JobCommits(w) ==
  /\ pc[w] = "job"
  /\ UseSession(w)
  /\ UNCHANGED <<pc, lockdb, holds, crashes>>

\* ... and a last time when the subprocess has ended.
JobDone(w) ==
  /\ Goto(w, "job", "lock")
  /\ UseSession(w)
  /\ UNCHANGED <<lockdb, holds, crashes>>

\* The lock is granted to the connection that has it already, or to any if none has it.
Granted(w, c) == \A v \in Worker, d \in Conn : holds[v][d] > 0 => v = w /\ d = c

\* mutant: the result of pg_try_advisory_lock is not looked at
TryLock_Unchecked(w) ==
  /\ Goto(w, "lock", "work")
  /\ lockdb' = [lockdb EXCEPT ![w] = Head(idle[w])]
  /\ idle' = [idle EXCEPT ![w] = Tail(@)]
  /\ UNCHANGED <<holds, crashes>>

TryLock(w) ==
  /\ pc[w] = "lock"
  /\ LET c == Head(idle[w]) IN
       /\ holds[w][c] < MaxNested
       /\ \/ /\ Granted(w, c)
             /\ holds' = [holds EXCEPT ![w][c] = @ + 1]
             /\ lockdb' = [lockdb EXCEPT ![w] = c]
             /\ idle' = [idle EXCEPT ![w] = Tail(@)]
             /\ Goto(w, "lock", "work")
          \/ /\ ~Granted(w, c)
             /\ UseSession(w)
             /\ Goto(w, "lock", "heartbeat")
             /\ UNCHANGED <<lockdb, holds>>
  /\ UNCHANGED crashes

\* Everything orchestration does, each part in a session of its own.
Work(w) ==
  /\ Goto(w, "work", "overdue")
  /\ UseSession(w)
  /\ UNCHANGED <<lockdb, holds, crashes>>

\* check_schedule_overdue(lockdb) commits or rolls back: the connection that has
\* the lock goes to the end of the pool.
OverdueCommits(w) ==
  /\ Goto(w, "overdue", "unlock")
  /\ idle' = [idle EXCEPT ![w] = Append(@, lockdb[w])]
  /\ lockdb' = [lockdb EXCEPT ![w] = 0]
  /\ UNCHANGED <<holds, crashes>>

\* mutant: pg_advisory_unlock takes a lock away from a connection that has none
Unlock_Blind(w) ==
  /\ Goto(w, "unlock", "heartbeat")
  /\ holds' = [holds EXCEPT ![w][Head(idle[w])] = @ - 1]
  /\ UseSession(w)
  /\ UNCHANGED <<lockdb, crashes>>

\* lockdb takes the next connection of the pool; pg_advisory_unlock of a lock the
\* connection does not have is a warning.
Unlock(w) ==
  /\ Goto(w, "unlock", "heartbeat")
  /\ LET c == Head(idle[w]) IN
       holds' = [holds EXCEPT ![w][c] = IF @ > 0 THEN @ - 1 ELSE 0]
  /\ UseSession(w)
  /\ UNCHANGED <<lockdb, crashes>>

\* The connection next in line is past its pool_recycle age: it is closed as it is
\* taken, its locks with it, and opened again.
Recycle_Never(w, c) == FALSE   \* mutant: the engine is created without pool_recycle
Recycle(w, c) ==
  /\ pc[w] # "down" /\ idle[w] # <<>> /\ Head(idle[w]) = c
  /\ holds[w][c] > 0
  /\ holds' = [holds EXCEPT ![w][c] = 0]
  /\ UNCHANGED <<pc, idle, lockdb, crashes>>

\* A worker process dies, and its connections with it.
Crash(w) ==
  /\ pc[w] # "down" /\ crashes < MaxCrashes
  /\ crashes' = crashes + 1
  /\ pc' = [pc EXCEPT ![w] = "down"]
  /\ idle' = [idle EXCEPT ![w] = <<>>]
  /\ lockdb' = [lockdb EXCEPT ![w] = 0]
  /\ holds' = [holds EXCEPT ![w] = [c \in Conn |-> 0]]

Restart(w) ==
  /\ Goto(w, "down", "heartbeat")
  /\ UNCHANGED <<idle, lockdb, holds, crashes>>

Step(w) ==
  \/ Heartbeat(w) \/ Claim(w) \/ TryLock(w) \/ Work(w) \/ OverdueCommits(w) \/ Unlock(w)
  \/ Restart(w)

Next ==
  \E w \in Worker :
    \/ Step(w) \/ JobCommits(w) \/ JobDone(w) \/ Crash(w)
    \/ \E c \in Conn : Recycle(w, c)

Spec == Init /\ [][Next]_vars

\* Every worker goes on, apart from subprocesses that hang (whose worker keeps
\* committing heartbeats), and a connection that keeps being taken gets recycled.
Fairness ==
  \A w \in Worker :
    /\ WF_vars(Step(w)) /\ WF_vars(JobCommits(w))
    /\ w \notin Hung => WF_vars(JobDone(w))
    /\ \A c \in Conn : SF_vars(Recycle(w, c))

FairSpec == Spec /\ Fairness

-----------------------------------------------------------------------------
(* Properties *)

\* "scaling to N workers cannot double-release a pipeline step, double-dispatch an
\* alert or double-roll a backfill": one worker at a time does the shared work.
OneOrchestrator ==
  \A v, w \in Worker : pc[v] \in {"work", "overdue"} /\ pc[w] \in {"work", "overdue"} => v = w

\* What keeps it so: one connection of all has the lock, and the connection of a
\* worker that does the shared work has it.
LockInv ==
  /\ \A v, w \in Worker : \A c, d \in Conn :
       holds[v][c] > 0 /\ holds[w][d] > 0 => v = w /\ c = d
  /\ \A w \in Worker : pc[w] \in {"work", "overdue"} =>
       /\ lockdb[w] \in Conn /\ holds[w][lockdb[w]] > 0
       /\ idle[w] = <<3 - lockdb[w]>> \/ (pc[w] = "work" /\ idle[w] = <<>>)
  /\ \A w \in Worker : pc[w] \notin {"work", "overdue"} => lockdb[w] = 0
  /\ \A w \in Worker : pc[w] \in {"claim", "job", "lock", "unlock"} => idle[w] # <<>>

\* Shared work goes on being done, though a worker whose subprocess hangs may have
\* the lock on an idle connection.
OrchestrationRecurs == []<>(\E w \in Worker : pc[w] = "work")

\* "A worker that can't get the lock simply skips (another worker is orchestrating)".
SkipsForAnother ==
  [][\A w \in Worker : pc[w] = "lock" /\ pc'[w] = "heartbeat" =>
       \E v \in Worker \ {w} : pc[v] \in Orchestrating]_vars

=============================================================================
