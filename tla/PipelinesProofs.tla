---------------------------- MODULE PipelinesProofs ----------------------------
(***************************************************************************)
(* What holds of the pipelines and the backfills for every graph, and any  *)
(* number of saves, runs and backfills.                                    *)
(***************************************************************************)
EXTENDS Backfill, FiniteSetTheorems, WellFoundedInduction, TLAPS

-----------------------------------------------------------------------------
(* Counting *)

\* A set of numbers that is not empty has a least one.
LEMMA Least == ASSUME NEW T, T \subseteq Nat, T # {} PROVE \E x \in T : \A y \in T : x <= y
<1> DEFINE R == OpToRel(<, Nat)
<1>1. IsWellFoundedOn(R, Nat)
  BY NatLessThanWellFounded
<1>2. \A x, y \in Nat : x < y => <<x, y>> \in R
  BY DEF OpToRel
<1> HIDE DEF R
<1>3. PICK x \in T : \A y \in T : ~(<<y, x>> \in R)
  BY <1>1, WFMin
<1>4. ASSUME NEW y \in T PROVE x <= y
  <2>1. x \in Nat /\ y \in Nat /\ ~(y < x)
    BY <1>2, <1>3
  <2> QED BY <2>1
<1> QED BY <1>4

\* A set that has 0, and with each number the next one, has all of them.
LEMMA Induct ==
  ASSUME NEW T, 0 \in T, \A n \in Nat : n \in T => n + 1 \in T
  PROVE  Nat \subseteq T
<1>1. SUFFICES ASSUME Nat \ T # {} PROVE FALSE
  OBVIOUS
<1>2. PICK x \in Nat \ T : \A y \in Nat \ T : x <= y
  BY <1>1, Least
<1>3. x # 0 /\ x - 1 \in Nat /\ x - 1 \in T
  BY <1>2
<1> QED BY <1>2, <1>3

-----------------------------------------------------------------------------
(* The release of steps *)

\* The statuses after each pass of the loop, up to the n-th.
Passes(v, s, n, f) == f = [m \in 0..n |-> IF m = 0 THEN s ELSE Pass(v, f[m - 1])]

LEMMA PassesExist ==
  ASSUME NEW v, NEW s PROVE \A n \in Nat : \E f : Passes(v, s, n, f)
<1> DEFINE T == {n \in Nat : \E f : Passes(v, s, n, f)}
<1>1. 0 \in T
  <2>1. Passes(v, s, 0, [m \in 0..0 |-> s])
    BY DEF Passes
  <2> QED BY <2>1
<1>2. ASSUME NEW n \in Nat, n \in T PROVE n + 1 \in T
  <2>1. PICK f : Passes(v, s, n, f)
    BY <1>2
  <2> DEFINE g == [m \in 0..(n + 1) |-> IF m <= n THEN f[m] ELSE Pass(v, f[n])]
  <2>2. \A m \in 0..n : f[m] = IF m = 0 THEN s ELSE Pass(v, f[m - 1])
    BY <2>1 DEF Passes
  <2>3. \A m \in 0..(n + 1) : g[m] = IF m = 0 THEN s ELSE Pass(v, g[m - 1])
    <3> SUFFICES ASSUME NEW m \in 0..(n + 1)
                 PROVE  g[m] = IF m = 0 THEN s ELSE Pass(v, g[m - 1])
      OBVIOUS
    <3>1. CASE m = 0
      BY <3>1, <2>2
    <3>2. CASE m \in 1..n
      <4>1. g[m] = f[m] /\ g[m - 1] = f[m - 1] /\ m \in 0..n
        BY <3>2
      <4> QED BY <4>1, <2>2, <3>2
    <3>3. CASE m = n + 1
      <4>1. g[m] = Pass(v, f[n]) /\ g[m - 1] = f[n]
        BY <3>3
      <4> QED BY <4>1, <3>3
    <3> QED BY <3>1, <3>2, <3>3
  <2>4. Passes(v, s, n + 1, g)
    BY <2>3 DEF Passes
  <2> QED BY <2>4
<1> HIDE DEF T
<1>3. Nat \subseteq T
  BY <1>1, <1>2, Induct
<1> QED BY <1>3 DEF T

LEMMA ReleaseIsPasses ==
  ASSUME NEW v, NEW s, IsFiniteSet(DOMAIN s)
  PROVE  \E n \in Nat : \E f : Passes(v, s, n, f) /\ Release(v, s) = f[n]
<1> DEFINE N == Cardinality(DOMAIN s)
<1>1. N \in Nat
  BY FS_CardinalityType
<1>2. \E f : Passes(v, s, N, f)
  BY <1>1, PassesExist
<1> DEFINE f == CHOOSE g : g = [n \in 0..N |-> IF n = 0 THEN s ELSE Pass(v, g[n - 1])]
<1>3. Passes(v, s, N, f)
  BY <1>2 DEF Passes
<1>4. Release(v, s) = f[N]
  BY DEF Release
<1> QED BY <1>1, <1>3, <1>4

\* What a release may make of steps in status s, with these dependencies: it leaves
\* alone what was not pending, and launches and skips steps as their dependencies ask.
Released(deps, s, t) ==
  /\ t \in [DOMAIN s -> StepStatus]
  /\ \A k \in DOMAIN s :
       /\ s[k] # "pending" => t[k] = s[k]
       /\ s[k] = "pending" => t[k] # "success"
       /\ s[k] = "pending" /\ t[k] = "running" =>
            \A d \in deps : d.down = k => t[d.up] \in StepEnded /\ Holds(d.type, t[d.up])
       /\ s[k] = "pending" /\ t[k] = "skipped" =>
            \E d \in deps : d.down = k /\ t[d.up] \in StepEnded /\ ~Holds(d.type, t[d.up])

\* A pass launches nothing whose upstream steps have not ended as they should ...
LEMMA PassReleases ==
  ASSUME NEW v, NEW s, NEW t, Released(saved[v].deps, s, t), \A d \in saved[v].deps : d.up \in DOMAIN s
  PROVE  Released(saved[v].deps, s, Pass(v, t))
<1> DEFINE u == Pass(v, t)
<1>1. DOMAIN t = DOMAIN s /\ t \in [DOMAIN s -> StepStatus]
  BY DEF Released
<1>2. \A k \in DOMAIN s :
        u[k] = IF t[k] # "pending" THEN t[k]
               ELSE IF \E d \in Upstreams(v, k) : Impossible(d.type, t[d.up]) THEN "skipped"
               ELSE IF \A d \in Upstreams(v, k) : Satisfied(d.type, t[d.up])
                    THEN IF Runnable(v, k) THEN "running" ELSE "failed"
               ELSE "pending"
  BY <1>1 DEF Pass
<1>3. u = [k \in DOMAIN s |-> u[k]]
  BY <1>1 DEF Pass
<1> HIDE DEF u
<1>4. u \in [DOMAIN s -> StepStatus]
  <2>1. \A k \in DOMAIN s : u[k] \in StepStatus
    BY <1>1, <1>2 DEF StepStatus, StepEnded
  <2> QED BY <2>1, <1>3
<1>5. \A k \in DOMAIN s : t[k] \in StepEnded => u[k] = t[k]
  BY <1>2 DEF StepEnded
<1>6. \A d \in saved[v].deps : t[d.up] \in StepEnded => u[d.up] = t[d.up]
  BY <1>5
<1>7. ASSUME NEW k \in DOMAIN s
      PROVE  /\ s[k] # "pending" => u[k] = s[k]
             /\ s[k] = "pending" => u[k] # "success"
  BY <1>2 DEF Released
<1>8. ASSUME NEW k \in DOMAIN s, s[k] = "pending", u[k] = "running", NEW d \in saved[v].deps, d.down = k
      PROVE  u[d.up] \in StepEnded /\ Holds(d.type, u[d.up])
  <2>1. CASE t[k] # "pending"
    <3>1. t[k] = "running"
      BY <1>2, <1>8, <2>1
    <3>2. t[d.up] \in StepEnded /\ Holds(d.type, t[d.up])
      BY <1>8, <3>1 DEF Released
    <3> QED BY <3>2, <1>6
  <2>2. CASE t[k] = "pending"
    <3>1. Runnable(v, k) /\ \A e \in Upstreams(v, k) : Satisfied(e.type, t[e.up])
      BY <1>2, <1>8, <2>2
    <3>2. d \in Upstreams(v, k)
      BY <1>8, <3>1 DEF Upstreams, Runnable
    <3>3. t[d.up] \in StepEnded /\ Holds(d.type, t[d.up])
      BY <3>1, <3>2 DEF Satisfied, Holds
    <3> QED BY <3>3, <1>6
  <2> QED BY <2>1, <2>2
<1>9. ASSUME NEW k \in DOMAIN s, s[k] = "pending", u[k] = "skipped"
      PROVE  \E d \in saved[v].deps :
               d.down = k /\ u[d.up] \in StepEnded /\ ~Holds(d.type, u[d.up])
  <2>1. CASE t[k] # "pending"
    <3>1. t[k] = "skipped"
      BY <1>2, <1>9, <2>1
    <3>2. PICK d \in saved[v].deps : d.down = k /\ t[d.up] \in StepEnded /\ ~Holds(d.type, t[d.up])
      BY <1>9, <3>1 DEF Released
    <3> QED BY <3>2, <1>6
  <2>2. CASE t[k] = "pending"
    <3>1. PICK d \in Upstreams(v, k) : Impossible(d.type, t[d.up])
      BY <1>2, <1>9, <2>2
    <3>2. d \in saved[v].deps /\ d.down = k
      BY <3>1 DEF Upstreams
    <3>3. t[d.up] \in StepEnded /\ ~Holds(d.type, t[d.up])
      BY <3>1 DEF Impossible, Holds
    <3> QED BY <3>2, <3>3, <1>6
  <2> QED BY <2>1, <2>2
<1>10. Released(saved[v].deps, s, u)
  BY <1>4, <1>7, <1>8, <1>9 DEF Released
<1> QED BY <1>10 DEF u

\* ... and so does not the whole loop.
LEMMA ReleaseReleases ==
  ASSUME NEW v, NEW S, IsFiniteSet(S), NEW s \in [S -> StepStatus],
         \A d \in saved[v].deps : d.up \in S
  PROVE  Released(saved[v].deps, s, Release(v, s))
<1>1. PICK n \in Nat : \E f : Passes(v, s, n, f) /\ Release(v, s) = f[n]
  BY ReleaseIsPasses
<1>2. PICK f : Passes(v, s, n, f) /\ Release(v, s) = f[n]
  BY <1>1
<1>3. \A m \in 0..n : f[m] = IF m = 0 THEN s ELSE Pass(v, f[m - 1])
  BY <1>2 DEF Passes
<1> DEFINE T == {m \in Nat : m <= n => Released(saved[v].deps, s, f[m])}
<1>4. 0 \in T
  <2>1. f[0] = s
    BY <1>3
  <2>2. Released(saved[v].deps, s, s)
    BY DEF Released
  <2> QED BY <2>1, <2>2
<1>5. ASSUME NEW m \in Nat, m \in T PROVE m + 1 \in T
  <2>1. SUFFICES ASSUME m + 1 <= n PROVE Released(saved[v].deps, s, f[m + 1])
    OBVIOUS
  <2>2. f[m + 1] = Pass(v, f[m]) /\ Released(saved[v].deps, s, f[m])
    BY <1>3, <1>5, <2>1
  <2>3. \A d \in saved[v].deps : d.up \in DOMAIN s
    OBVIOUS
  <2> QED BY <2>2, <2>3, PassReleases
<1> HIDE DEF T
<1>6. Nat \subseteq T
  BY <1>4, <1>5, Induct
<1> QED BY <1>6, <1>2 DEF T

-----------------------------------------------------------------------------
(* The steps of a restart *)

\* The steps of A and those of save v that depend on one of them, and what is reached
\* from step k by at most n dependencies.
Further(v, A) == A \union {j \in saved[v].steps : \E d \in Upstreams(v, j) : d.up \in A}
Reaches(v, k, n, f) == f = [m \in 0..n |-> IF m = 0 THEN {k} ELSE Further(v, f[m - 1])]

LEMMA ReachesExist ==
  ASSUME NEW v, NEW k PROVE \A n \in Nat : \E f : Reaches(v, k, n, f)
<1> DEFINE T == {n \in Nat : \E f : Reaches(v, k, n, f)}
<1>1. 0 \in T
  <2>1. Reaches(v, k, 0, [m \in 0..0 |-> {k}])
    BY DEF Reaches
  <2> QED BY <2>1
<1>2. ASSUME NEW n \in Nat, n \in T PROVE n + 1 \in T
  <2>1. PICK f : Reaches(v, k, n, f)
    BY <1>2
  <2> DEFINE g == [m \in 0..(n + 1) |-> IF m <= n THEN f[m] ELSE Further(v, f[n])]
  <2>2. \A m \in 0..n : f[m] = IF m = 0 THEN {k} ELSE Further(v, f[m - 1])
    BY <2>1 DEF Reaches
  <2>3. \A m \in 0..(n + 1) : g[m] = IF m = 0 THEN {k} ELSE Further(v, g[m - 1])
    <3> SUFFICES ASSUME NEW m \in 0..(n + 1)
                 PROVE  g[m] = IF m = 0 THEN {k} ELSE Further(v, g[m - 1])
      OBVIOUS
    <3>1. CASE m = 0
      BY <3>1, <2>2
    <3>2. CASE m \in 1..n
      <4>1. g[m] = f[m] /\ g[m - 1] = f[m - 1] /\ m \in 0..n
        BY <3>2
      <4> QED BY <4>1, <2>2, <3>2
    <3>3. CASE m = n + 1
      <4>1. g[m] = Further(v, f[n]) /\ g[m - 1] = f[n]
        BY <3>3
      <4> QED BY <4>1, <3>3
    <3> QED BY <3>1, <3>2, <3>3
  <2>4. Reaches(v, k, n + 1, g)
    BY <2>3 DEF Reaches
  <2> QED BY <2>4
<1> HIDE DEF T
<1>3. Nat \subseteq T
  BY <1>1, <1>2, Induct
<1> QED BY <1>3 DEF T

LEMMA DownstreamIsReached ==
  ASSUME NEW v, NEW k, IsFiniteSet(saved[v].steps)
  PROVE  \E n \in Nat : \E f : Reaches(v, k, n, f) /\ Downstream(v, k) = f[n]
<1> DEFINE N == Cardinality(saved[v].steps)
<1>1. N \in Nat
  BY FS_CardinalityType
<1>2. \E f : Reaches(v, k, N, f)
  BY <1>1, ReachesExist
<1> DEFINE f == CHOOSE g : g =
     [n \in 0..N |->
        IF n = 0 THEN {k}
        ELSE g[n - 1] \union {j \in saved[v].steps : \E d \in Upstreams(v, j) : d.up \in g[n - 1]}]
<1>3. Reaches(v, k, N, f)
  BY <1>2 DEF Reaches, Further
<1>4. Downstream(v, k) = f[N]
  BY DEF Downstream
<1> QED BY <1>1, <1>3, <1>4

\* A set of steps that has the restart step, and with each step those that depend on it,
\* has all those that the restart goes through.
LEMMA DownstreamIsLeast ==
  ASSUME NEW v, NEW S, NEW k \in S, IsFiniteSet(saved[v].steps),
         \A d \in saved[v].deps : d.up \in S => d.down \in S
  PROVE  Downstream(v, k) \subseteq S
<1>1. PICK n \in Nat : \E f : Reaches(v, k, n, f) /\ Downstream(v, k) = f[n]
  BY DownstreamIsReached
<1>2. PICK f : Reaches(v, k, n, f) /\ Downstream(v, k) = f[n]
  BY <1>1
<1>3. \A m \in 0..n :
        f[m] = IF m = 0 THEN {k} ELSE Further(v, f[m - 1])
  BY <1>2 DEF Reaches
<1> DEFINE T == {m \in Nat : m <= n => f[m] \subseteq S}
<1>4. 0 \in T
  BY <1>3
<1>5. ASSUME NEW m \in Nat, m \in T PROVE m + 1 \in T
  <2>1. SUFFICES ASSUME m + 1 <= n PROVE f[m + 1] \subseteq S
    OBVIOUS
  <2>2. f[m + 1] = Further(v, f[m])
    BY <1>3, <2>1
  <2>3. f[m] \subseteq S
    BY <1>5, <2>1
  <2>4. \A j : \A d \in Upstreams(v, j) : d \in saved[v].deps /\ d.down = j
    BY DEF Upstreams
  <2> QED BY <2>2, <2>3, <2>4 DEF Further
<1> HIDE DEF T
<1>6. Nat \subseteq T
  BY <1>4, <1>5, Induct
<1> QED BY <1>6, <1>2 DEF T

-----------------------------------------------------------------------------
(* One run *)

\* Step k may run in a run that is restarted from a step: it is one of the steps S of
\* the save v, and comes after that step.
Within(deps, S, restart, v, k) ==
  restart # NoStep =>
    /\ restart[1] = v
    /\ \A A \in SUBSET S :
         restart[2] \in A /\ (\A d \in deps : d.up \in A => d.down \in A) => k \in A

\* What holds of a run of a graph with these dependencies, with its steps in status s,
\* their executions in status x and the run itself in this status: what is pending has
\* no execution, what has one that is active is running, what succeeded has none that
\* did not; what was launched or skipped was so as its dependencies ask, and what is
\* pending or was launched may be; and the run ended only once all of its steps had.
Tidy(deps, s, x, status, restart, v) ==
  /\ \A k \in DOMAIN s :
       /\ s[k] = "pending" => x[k] = "none"
       /\ x[k] = "active" => s[k] = "running"
       /\ s[k] = "success" => x[k] \in {"none", "success"}
       /\ x[k] # "none" =>
            \A d \in deps : d.down = k => s[d.up] \in StepEnded /\ Holds(d.type, s[d.up])
       /\ s[k] = "skipped" =>
            \E d \in deps : d.down = k /\ s[d.up] \in StepEnded /\ ~Holds(d.type, s[d.up])
       /\ s[k] = "pending" \/ x[k] # "none" => Within(deps, DOMAIN s, restart, v, k)
  /\ status \in RunEnded => \A k \in DOMAIN s : s[k] \in StepEnded
  /\ status = "success" => \A k \in DOMAIN s : s[k] = "success"

\* A run starts so ...
LEMMA StartIsTidy ==
  ASSUME NEW S, NEW s \in [S -> {"pending", "success"}], NEW t, NEW deps, NEW restart, NEW v,
         NEW z, \A k \in S : z[k] = "none",
         Released(deps, s, t),
         \A k \in S : s[k] = "pending" => Within(deps, S, restart, v, k),
         \A d \in deps : d.up \in S
  PROVE  Tidy(deps, t, Launch(z, s, t), "running", restart, v)
<1> DEFINE x == Launch(z, s, t)
<1>1. t \in [S -> StepStatus] /\ DOMAIN t = S
  BY DEF Released
<1>2. \A k \in S : x[k] = IF s[k] = "pending" /\ t[k] = "running" THEN "active" ELSE "none"
  BY <1>1 DEF Launch
<1> HIDE DEF x
<1>4. ASSUME NEW k \in S
      PROVE  /\ t[k] = "pending" => x[k] = "none"
             /\ x[k] = "active" => t[k] = "running"
             /\ t[k] = "success" => x[k] \in {"none", "success"}
             /\ t[k] = "pending" \/ x[k] # "none" => Within(deps, S, restart, v, k)
             /\ t[k] = "skipped" => s[k] = "pending"
             /\ x[k] # "none" => s[k] = "pending" /\ t[k] = "running"
  BY <1>2 DEF Released
<1>5. ASSUME NEW k \in S, x[k] # "none", NEW d \in deps, d.down = k
      PROVE  t[d.up] \in StepEnded /\ Holds(d.type, t[d.up])
  BY <1>4, <1>5 DEF Released
<1>6. ASSUME NEW k \in S, t[k] = "skipped"
      PROVE  \E d \in deps : d.down = k /\ t[d.up] \in StepEnded /\ ~Holds(d.type, t[d.up])
  BY <1>4, <1>6 DEF Released
<1>7. "running" \notin RunEnded
  BY DEF RunEnded
<1>8. Tidy(deps, t, x, "running", restart, v)
  BY <1>1, <1>4, <1>5, <1>6, <1>7 DEF Tidy
<1> QED BY <1>8 DEF x

\* What a tick makes of steps in status s whose executions are in status x, before it
\* releases any: some of those that ended are found.
Ended(s, x, m) ==
  /\ m \in [DOMAIN s -> StepStatus]
  /\ \A k \in DOMAIN s :
       \/ m[k] = s[k]
       \/ /\ s[k] = "running" /\ x[k] \in JobEnded
          /\ m[k] = IF x[k] = "success" THEN "success" ELSE "failed"

\* ... and a tick changes nothing that has ended ...
LEMMA TickKeepsEnds ==
  ASSUME NEW S, NEW s \in [S -> StepStatus], NEW x \in [S -> ExecStatus], NEW m, NEW t,
         NEW deps, NEW restart, NEW v,
         Tidy(deps, s, x, "running", restart, v), Ended(s, x, m), Released(deps, m, t)
  PROVE  /\ t \in [S -> StepStatus]
         /\ Launch(x, s, t) \in [S -> ExecStatus]
         /\ \A k \in S : /\ s[k] \in StepEnded => t[k] = s[k]
                         /\ x[k] # "none" => Launch(x, s, t)[k] = x[k]
                         /\ Launch(x, s, t)[k] # x[k] =>
                              Launch(x, s, t)[k] = "active" /\ s[k] = "pending" /\ t[k] = "running"
<1>1. t \in [S -> StepStatus] /\ DOMAIN t = S /\ DOMAIN m = S
  BY DEF Released, Ended
<1>2. \A k \in S : Launch(x, s, t)[k] = IF s[k] = "pending" /\ t[k] = "running" THEN "active" ELSE x[k]
  BY <1>1 DEF Launch
<1>3. Launch(x, s, t) \in [S -> ExecStatus]
  BY <1>1 DEF Launch, ExecStatus
<1>4. ASSUME NEW k \in S, s[k] \in StepEnded PROVE t[k] = s[k]
  <2>1. m[k] = s[k] /\ s[k] # "pending"
    BY <1>4 DEF Ended, StepEnded
  <2> QED BY <2>1, <1>1 DEF Released
<1>5. ASSUME NEW k \in S, x[k] # "none" PROVE Launch(x, s, t)[k] = x[k]
  <2>1. s[k] # "pending"
    BY <1>5 DEF Tidy
  <2> QED BY <2>1, <1>2
<1> QED BY <1>1, <1>2, <1>3, <1>4, <1>5

\* ... and leaves the run so.
LEMMA TickKeepsTidy ==
  ASSUME NEW S, NEW s \in [S -> StepStatus], NEW x \in [S -> ExecStatus], NEW m, NEW t,
         NEW deps, NEW restart, NEW v, \A d \in deps : d.up \in S,
         Tidy(deps, s, x, "running", restart, v), Ended(s, x, m), Released(deps, m, t)
  PROVE  Tidy(deps, t, Launch(x, s, t), Outcome(StatusesOf(t)), restart, v)
<1> DEFINE y == Launch(x, s, t)
<1>1. /\ t \in [S -> StepStatus] /\ DOMAIN t = S /\ DOMAIN m = S /\ DOMAIN s = S
      /\ y \in [S -> ExecStatus]
      /\ \A k \in S : s[k] \in StepEnded => t[k] = s[k]
      /\ \A k \in S : x[k] # "none" => y[k] = x[k]
      /\ \A k \in S : y[k] # x[k] => y[k] = "active" /\ s[k] = "pending" /\ t[k] = "running"
  <2>1. DOMAIN m = S
    BY DEF Ended
  <2> QED BY <2>1, TickKeepsEnds
<1>2. \A k \in S : s[k] = "pending" => m[k] = "pending"
  BY DEF Ended
<1>3. \A k \in S : t[k] = "pending" => s[k] = "pending"
  BY <1>1 DEF Released, Ended
<1> HIDE DEF y
<1>4. ASSUME NEW k \in S
      PROVE  /\ t[k] = "pending" => y[k] = "none"
             /\ t[k] = "pending" \/ y[k] # "none" => Within(deps, S, restart, v, k)
  BY <1>1, <1>3 DEF Tidy
<1>5. ASSUME NEW k \in S, y[k] = "active" PROVE t[k] = "running"
  <2>1. CASE y[k] # x[k]
    BY <2>1, <1>1
  <2>2. CASE y[k] = x[k]
    <3>1. s[k] = "running" /\ x[k] \notin JobEnded
      BY <1>5, <2>2, <1>1 DEF Tidy, JobEnded
    <3>2. m[k] = "running"
      BY <3>1, <1>1 DEF Ended
    <3> QED BY <3>2, <1>1 DEF Released
  <2> QED BY <2>1, <2>2
<1>6. ASSUME NEW k \in S, t[k] = "success" PROVE y[k] \in {"none", "success"}
  <2>1. m[k] = "success"
    BY <1>6, <1>1 DEF Released
  <2>2. CASE s[k] = "success"
    BY <2>2, <1>1, <1>6 DEF Tidy
  <2>3. CASE s[k] # "success"
    <3>1. s[k] = "running" /\ x[k] = "success"
      BY <2>1, <2>3, <1>1 DEF Ended
    <3> QED BY <3>1, <1>1
  <2> QED BY <2>2, <2>3
<1>7. ASSUME NEW k \in S, y[k] # "none", NEW d \in deps, d.down = k
      PROVE  t[d.up] \in StepEnded /\ Holds(d.type, t[d.up])
  <2>1. CASE y[k] = x[k]
    <3>1. s[d.up] \in StepEnded /\ Holds(d.type, s[d.up])
      BY <1>1, <1>7, <2>1 DEF Tidy
    <3> QED BY <3>1, <1>1
  <2>2. CASE y[k] # x[k]
    <3>1. m[k] = "pending" /\ t[k] = "running"
      BY <2>2, <1>1, <1>2
    <3> QED BY <3>1, <1>1, <1>7 DEF Released
  <2> QED BY <2>1, <2>2
<1>8. ASSUME NEW k \in S, t[k] = "skipped"
      PROVE  \E d \in deps : d.down = k /\ t[d.up] \in StepEnded /\ ~Holds(d.type, t[d.up])
  <2>1. CASE m[k] = "pending"
    BY <2>1, <1>8, <1>1 DEF Released
  <2>2. CASE m[k] # "pending"
    <3>1. m[k] = "skipped"
      BY <2>2, <1>8, <1>1 DEF Released
    <3>2. s[k] = "skipped"
      BY <3>1, <1>1 DEF Ended
    <3>3. PICK d \in deps : d.down = k /\ s[d.up] \in StepEnded /\ ~Holds(d.type, s[d.up])
      BY <3>2, <1>1 DEF Tidy
    <3> QED BY <3>3, <1>1
  <2> QED BY <2>1, <2>2
<1>9. /\ Outcome(StatusesOf(t)) \in RunEnded => \A k \in S : t[k] \in StepEnded
      /\ Outcome(StatusesOf(t)) = "success" => \A k \in S : t[k] = "success"
  <2>1. \A k \in S : t[k] \in StatusesOf(t)
    BY <1>1 DEF StatusesOf
  <2>2. ASSUME Outcome(StatusesOf(t)) \in RunEnded, NEW k \in S PROVE t[k] \in StepEnded
    <3>1. t[k] \notin {"pending", "running"}
      BY <2>1, <2>2 DEF Outcome, RunEnded
    <3> QED BY <3>1, <1>1 DEF StepStatus
  <2>3. ASSUME Outcome(StatusesOf(t)) = "success", NEW k \in S PROVE t[k] = "success"
    BY <2>1, <2>3 DEF Outcome
  <2> QED BY <2>2, <2>3
<1>10. Tidy(deps, t, y, Outcome(StatusesOf(t)), restart, v)
  BY <1>1, <1>4, <1>5, <1>6, <1>7, <1>8, <1>9 DEF Tidy
<1> QED BY <1>10 DEF y

\* The end of an execution leaves it so too.
LEMMA EndKeepsTidy ==
  ASSUME NEW S, NEW s \in [S -> StepStatus], NEW x \in [S -> ExecStatus],
         NEW deps, NEW status, NEW restart, NEW v, NEW j \in S, NEW result \in JobEnded,
         Tidy(deps, s, x, status, restart, v), x[j] = "active"
  PROVE  /\ Tidy(deps, s, [x EXCEPT ![j] = result], status, restart, v)
         /\ [x EXCEPT ![j] = result] \in [S -> ExecStatus]
<1> DEFINE y == [x EXCEPT ![j] = result]
<1>1. DOMAIN s = S /\ \A k \in S : y[k] = IF k = j THEN result ELSE x[k]
  OBVIOUS
<1>2. y \in [S -> ExecStatus]
  BY DEF ExecStatus
<1>3. s[j] = "running" /\ result # "none" /\ result # "active"
  BY <1>1 DEF Tidy, JobEnded
<1> HIDE DEF y
<1>4. \A k \in S : /\ s[k] = "pending" \/ s[k] = "success" => y[k] = x[k]
                   /\ y[k] = "active" => x[k] = "active"
                   /\ y[k] # "none" => x[k] # "none"
  BY <1>1, <1>3
<1>5. Tidy(deps, s, y, status, restart, v)
  BY <1>1, <1>4 DEF Tidy
<1> QED BY <1>2, <1>5 DEF y

-----------------------------------------------------------------------------
(* The state *)

\* What holds of every run.
RunsInv ==
  \A r \in Runs : Tidy(DepsOf(r), step[r], exec[r], run[r], from[r], version[r])

LEMMA SeqGrows == ASSUME NEW A, NEW B, A \subseteq B, NEW q \in Seq(A) PROVE q \in Seq(B)
<1>1. Len(q) \in Nat /\ q = [i \in 1..Len(q) |-> q[i]] /\ \A i \in 1..Len(q) : q[i] \in A
  OBVIOUS
<1> QED BY <1>1

LEMMA FunctionIsSeq ==
  ASSUME NEW n \in Nat, NEW A, NEW q, q = [i \in 1..n |-> q[i]], \A i \in 1..n : q[i] \in A
  PROVE  q \in Seq(A) /\ Len(q) = n
  OBVIOUS

LEMMA AppendIs ==
  ASSUME NEW A, NEW q \in Seq(A), NEW e \in A
  PROVE  /\ Append(q, e) \in Seq(A) /\ Len(Append(q, e)) = Len(q) + 1
         /\ \A i \in 1..Len(q) : Append(q, e)[i] = q[i]
         /\ Append(q, e)[Len(q) + 1] = e
  OBVIOUS

\* The steps of a graph are as many as one can count, and its dependencies join them.
LEMMA GraphsAreSound ==
  ASSUME saved \in Seq(Graph \union {Empty}), NEW v \in 1..Current
  PROVE  /\ IsFiniteSet(saved[v].steps)
         /\ \A d \in saved[v].deps : d.up \in saved[v].steps
<1>1. CASE saved[v] \in Graph
  <2>1. Valid(saved[v])
    BY <1>1, GraphsAssumption
  <2>2. \A d \in saved[v].deps : {d.up, d.down} \subseteq saved[v].steps
    BY <2>1 DEF Valid
  <2> QED BY <2>1, <2>2 DEF Valid
<1>2. CASE saved[v] = Empty
  BY <1>2, FS_EmptySet DEF Empty
<1>3. saved[v] \in Graph \union {Empty}
  BY DEF Current
<1> QED BY <1>1, <1>2, <1>3

LEMMA RunTypes ==
  ASSUME TypeOK, NEW r \in Runs
  PROVE  /\ version[r] \in 1..Current /\ run[r] \in {"running"} \union RunEnded
         /\ from[r] \in Restarts
         /\ step[r] \in [saved[version[r]].steps -> StepStatus]
         /\ exec[r] \in [saved[version[r]].steps -> ExecStatus]
         /\ StepsOf(r) = saved[version[r]].steps
<1> DEFINE V == 1..Current
<1>0. /\ run \in Seq({"running"} \union RunEnded) /\ version \in Seq(V) /\ from \in Seq(Restarts)
      /\ r \in 1..Len(run) /\ Len(version) = Len(run) /\ Len(from) = Len(run)
  BY DEF TypeOK, Runs
<1> HIDE DEF V
<1>1. version[r] \in V /\ run[r] \in {"running"} \union RunEnded /\ from[r] \in Restarts
  BY <1>0
<1>2. /\ step[r] \in [saved[version[r]].steps -> StepStatus]
      /\ exec[r] \in [saved[version[r]].steps -> ExecStatus]
  BY DEF TypeOK
<1> QED BY <1>1, <1>2 DEF StepsOf, V

LEMMA SaveGraphKeeps ==
  ASSUME TypeOK, RunsInv, SaveGraph PROVE TypeOK' /\ RunsInv'
<1>1. PICK g \in Graph : saved' = Append(saved, g)
  BY DEF SaveGraph
<1>2. /\ saved \in Seq(Graph \union {Empty}) /\ Len(saved) \in 1..(MaxSaves + 1)
      /\ Len(saved) <= MaxSaves /\ MaxSaves \in Nat
  BY RunsAssumption DEF TypeOK, SaveGraph
<1>3. /\ saved' \in Seq(Graph \union {Empty}) /\ Current' = Current + 1 /\ Current \in Nat
      /\ \A v \in 1..Current : saved'[v] = saved[v]
      /\ Len(saved') \in 1..(MaxSaves + 1)
  BY <1>1, <1>2 DEF Current
<1>4. 1..Current \subseteq 1..Current'
  BY <1>3
<1>5. Restarts \subseteq Restarts'
  BY <1>3, <1>4 DEF Restarts
<1>6. \A X : PerStep(X) \subseteq UNION {[saved'[v].steps -> X] : v \in 1..Current'}
  BY <1>3, <1>4 DEF PerStep
<1>7. /\ PerStep(StepStatus) \subseteq PerStep(StepStatus)'
      /\ PerStep(ExecStatus) \subseteq PerStep(ExecStatus)'
  BY <1>6 DEF PerStep
<1>8. UNCHANGED <<activeJobs, request, run, version, from, step, exec>>
  BY DEF SaveGraph, runVars
<1>9. \A r \in Runs : /\ version[r] \in 1..Current
                      /\ step[r] \in [saved[version[r]].steps -> StepStatus]
                      /\ exec[r] \in [saved[version[r]].steps -> ExecStatus]
  BY RunTypes
<1>10. TypeOK'
  <2>1. saved' \in Seq(Graph \union {Empty}) /\ Len(saved') \in 1..(MaxSaves + 1)
    BY <1>3
  <2>2. activeJobs' \subseteq Job
    BY <1>8 DEF TypeOK
  <2>3. request' = NoRequest \/ (request' \in [version : 1..Current', from : Restarts'] /\ Len(run') < MaxRuns)
    BY <1>8, <1>4, <1>5 DEF TypeOK
  <2>4. Len(run') \in 0..MaxRuns /\ run' \in Seq({"running"} \union RunEnded)
    BY <1>8 DEF TypeOK
  <2>5. version' \in Seq(1..Current') /\ from' \in Seq(Restarts')
    <3>1. version \in Seq(1..Current) /\ from \in Seq(Restarts)
      BY DEF TypeOK
    <3>2. version \in Seq(1..Current') /\ from \in Seq(Restarts')
      BY <3>1, <1>4, <1>5, SeqGrows
    <3> QED BY <3>2, <1>8
  <2>6. step' \in Seq(PerStep(StepStatus)') /\ exec' \in Seq(PerStep(ExecStatus)')
    <3>1. step \in Seq(PerStep(StepStatus)) /\ exec \in Seq(PerStep(ExecStatus))
      BY DEF TypeOK
    <3>2. step \in Seq(PerStep(StepStatus)') /\ exec \in Seq(PerStep(ExecStatus)')
      BY <3>1, <1>7, SeqGrows
    <3> QED BY <3>2, <1>8
  <2>7. Len(version') = Len(run') /\ Len(from') = Len(run') /\ Len(step') = Len(run') /\ Len(exec') = Len(run')
    BY <1>8 DEF TypeOK
  <2>8. \A r \in Runs' : /\ step'[r] \in [saved'[version'[r]].steps -> StepStatus]
                         /\ exec'[r] \in [saved'[version'[r]].steps -> ExecStatus]
    BY <1>8, <1>9, <1>3 DEF Runs
  <2> QED BY <2>1, <2>2, <2>3, <2>4, <2>5, <2>6, <2>7, <2>8 DEF TypeOK
<1>11. ASSUME NEW r \in Runs
       PROVE  Tidy(saved'[version'[r]].deps, step'[r], exec'[r], run'[r], from'[r], version'[r])
  <2>1. saved'[version'[r]].deps = DepsOf(r)
    BY <1>3, <1>8, <1>9 DEF DepsOf
  <2> QED BY <2>1, <1>8 DEF RunsInv
<1>12. RunsInv'
  <2>1. Runs' = Runs
    BY <1>8 DEF Runs
  <2> QED BY <1>11, <2>1 DEF RunsInv, DepsOf
<1> QED BY <1>10, <1>12

\* The requests that are read, and the jobs that are enabled or disabled.
LEMMA RequestsKeep ==
  ASSUME TypeOK, RunsInv,
         UNCHANGED <<saved, runVars>>,
         activeJobs' \subseteq Job,
         request' = request \/ \E restart \in Restarts : ReadPipeline(restart)
  PROVE  TypeOK' /\ RunsInv'
<1>1. UNCHANGED <<saved, run, version, from, step, exec>>
  BY DEF runVars
<1>2. Current' = Current /\ Restarts' = Restarts /\ Runs' = Runs
  BY <1>1 DEF Current, Restarts, Runs
<1>3. PerStep(StepStatus)' = PerStep(StepStatus) /\ PerStep(ExecStatus)' = PerStep(ExecStatus)
  BY <1>1, <1>2 DEF PerStep
<1>4. request' = NoRequest \/ (request' \in [version : 1..Current, from : Restarts] /\ Len(run) < MaxRuns)
  <2>1. CASE request' = request
    BY <2>1 DEF TypeOK
  <2>2. ASSUME NEW restart \in Restarts, ReadPipeline(restart)
        PROVE  request' \in [version : 1..Current, from : Restarts] /\ Len(run) < MaxRuns
    <3>1. Current \in 1..Current
      BY DEF TypeOK, Current
    <3> QED BY <2>2, <3>1 DEF ReadPipeline
  <2> QED BY <2>1, <2>2
<1>5. TypeOK'
  BY <1>1, <1>2, <1>3, <1>4 DEF TypeOK
<1>6. RunsInv'
  BY <1>1, <1>2 DEF RunsInv, DepsOf
<1> QED BY <1>5, <1>6

\* A run starts as it should ...
LEMMA StartIsSound ==
  ASSUME TypeOK, request # NoRequest,
         NEW v, NEW s, NEW t, NEW x,
         v = request.version,
         s = [k \in saved[v].steps |-> IF k \in Kept(v, request.from) THEN "pending" ELSE "success"],
         t = Release(v, s),
         x = Launch([k \in DOMAIN s |-> "none"], s, t)
  PROVE  /\ v \in 1..Current /\ request.from \in Restarts /\ Len(run) < MaxRuns
         /\ t \in [saved[v].steps -> StepStatus] /\ x \in [saved[v].steps -> ExecStatus]
         /\ Tidy(saved[v].deps, t, x, "running", request.from, v)
<1> DEFINE S == saved[v].steps
<1>1. v \in 1..Current /\ request.from \in Restarts /\ Len(run) < MaxRuns
  BY DEF TypeOK
<1>2. IsFiniteSet(S) /\ \A d \in saved[v].deps : d.up \in S
  BY <1>1, GraphsAreSound DEF TypeOK
<1>3. s \in [S -> {"pending", "success"}] /\ s \in [S -> StepStatus] /\ DOMAIN s = S
  BY DEF StepStatus, StepEnded
<1>4. Released(saved[v].deps, s, t)
  BY <1>2, <1>3, ReleaseReleases
<1>5. ASSUME NEW k \in S, s[k] = "pending" PROVE Within(saved[v].deps, S, request.from, v, k)
  <2>1. k \in Kept(v, request.from)
    BY <1>5
  <2>2. SUFFICES ASSUME request.from # NoStep
                 PROVE  /\ request.from[1] = v
                        /\ \A A \in SUBSET S :
                             /\ request.from[2] \in A
                             /\ \A d \in saved[v].deps : d.up \in A => d.down \in A
                             => k \in A
    BY DEF Within
  <2>3. request.from[1] = v /\ k \in Downstream(v, request.from[2])
    BY <2>1, <2>2 DEF Kept
  <2>4. ASSUME NEW A \in SUBSET S, request.from[2] \in A,
               \A d \in saved[v].deps : d.up \in A => d.down \in A
        PROVE  k \in A
    <3>1. Downstream(v, request.from[2]) \subseteq A
      BY <1>2, <2>4, DownstreamIsLeast
    <3> QED BY <3>1, <2>3
  <2> QED BY <2>3, <2>4
<1>6. PICK G, w, z, T : /\ G = saved[v].deps /\ w = request.from /\ T = S
                        /\ z = [k \in DOMAIN s |-> "none"]
  OBVIOUS
<1>7. /\ \A d \in G : d.up \in T
      /\ Released(G, s, t)
      /\ \A k \in T : s[k] = "pending" => Within(G, T, w, v, k)
      /\ \A k \in T : z[k] = "none"
  BY <1>2, <1>3, <1>4, <1>5, <1>6
<1>8. s \in [T -> {"pending", "success"}]
  BY <1>3, <1>6
<1>9. Tidy(G, t, Launch(z, s, t), "running", w, v)
  BY ONLY <1>7, <1>8, StartIsTidy
<1>10. t \in [T -> StepStatus]
  BY <1>7, <1>8 DEF Released
<1>11. DOMAIN t = T /\ \A k \in T : z[k] \in ExecStatus
  BY <1>7, <1>10 DEF ExecStatus
<1>12. Launch(z, s, t) \in [T -> ExecStatus]
  BY <1>11 DEF Launch, ExecStatus
<1>13. x = Launch(z, s, t)
  BY <1>6
<1> QED BY <1>1, <1>6, <1>9, <1>10, <1>12, <1>13

LEMMA StartRunKeeps ==
  ASSUME TypeOK, RunsInv, StartRun PROVE TypeOK' /\ RunsInv'
<1>1. PICK v, s, t, x, w :
        /\ v = request.version /\ w = request.from
        /\ s = [k \in saved[v].steps |-> IF k \in Kept(v, request.from) THEN "pending" ELSE "success"]
        /\ t = Release(v, s)
        /\ x = Launch([k \in DOMAIN s |-> "none"], s, t)
        /\ step' = Append(step, t) /\ exec' = Append(exec, x)
        /\ version' = Append(version, v) /\ from' = Append(from, w)
        /\ run' = Append(run, "running")
  BY DEF StartRun
<1>2. request # NoRequest /\ request' = NoRequest /\ UNCHANGED <<saved, activeJobs>>
  BY DEF StartRun
<1>3. /\ v \in 1..Current /\ w \in Restarts /\ Len(run) < MaxRuns
      /\ t \in [saved[v].steps -> StepStatus] /\ x \in [saved[v].steps -> ExecStatus]
      /\ Tidy(saved[v].deps, t, x, "running", w, v)
  BY <1>1, <1>2, StartIsSound
<1>4. Current' = Current /\ Restarts' = Restarts
  BY <1>2 DEF Current, Restarts
<1>5. PerStep(StepStatus)' = PerStep(StepStatus) /\ PerStep(ExecStatus)' = PerStep(ExecStatus)
  BY <1>2, <1>4 DEF PerStep
<1> DEFINE N == Len(run)
           V == 1..Current
<1>6. /\ N \in Nat /\ MaxRuns \in Nat /\ run \in Seq({"running"} \union RunEnded)
      /\ version \in Seq(V) /\ from \in Seq(Restarts)
      /\ step \in Seq(PerStep(StepStatus)) /\ exec \in Seq(PerStep(ExecStatus))
      /\ Len(version) = N /\ Len(from) = N /\ Len(step) = N /\ Len(exec) = N
  BY RunsAssumption DEF TypeOK
<1>7. t \in PerStep(StepStatus) /\ x \in PerStep(ExecStatus)
  BY <1>3 DEF PerStep
<1>8. v \in V
  BY <1>3
<1> HIDE DEF V
<1>9. /\ run' \in Seq({"running"} \union RunEnded) /\ Len(run') = N + 1
      /\ \A r \in 1..N : run'[r] = run[r]
      /\ run'[N + 1] = "running"
  BY <1>1, <1>6, AppendIs
<1>10. /\ version' \in Seq(V) /\ Len(version') = N + 1
       /\ \A r \in 1..N : version'[r] = version[r]
       /\ version'[N + 1] = v
  BY <1>1, <1>6, <1>8, AppendIs
<1>11. /\ from' \in Seq(Restarts) /\ Len(from') = N + 1
       /\ \A r \in 1..N : from'[r] = from[r]
       /\ from'[N + 1] = w
  BY <1>1, <1>6, <1>3, AppendIs
<1>12. /\ step' \in Seq(PerStep(StepStatus)) /\ Len(step') = N + 1
       /\ \A r \in 1..N : step'[r] = step[r]
       /\ step'[N + 1] = t
  BY <1>1, <1>6, <1>7, AppendIs
<1>13. /\ exec' \in Seq(PerStep(ExecStatus)) /\ Len(exec') = N + 1
       /\ \A r \in 1..N : exec'[r] = exec[r]
       /\ exec'[N + 1] = x
  BY <1>1, <1>6, <1>7, AppendIs
<1>14. \A r \in Runs' : r \in Runs \/ r = N + 1
  BY <1>6, <1>9 DEF Runs
<1>15. \A r \in Runs' : /\ step'[r] \in [saved'[version'[r]].steps -> StepStatus]
                        /\ exec'[r] \in [saved'[version'[r]].steps -> ExecStatus]
  <2>1. ASSUME NEW r \in Runs
        PROVE  /\ step'[r] \in [saved'[version'[r]].steps -> StepStatus]
               /\ exec'[r] \in [saved'[version'[r]].steps -> ExecStatus]
    <3>1. r \in 1..N
      BY DEF Runs
    <3> QED BY <3>1, <1>2, <1>10, <1>12, <1>13, RunTypes
  <2>2. /\ step'[N + 1] \in [saved'[version'[N + 1]].steps -> StepStatus]
        /\ exec'[N + 1] \in [saved'[version'[N + 1]].steps -> ExecStatus]
    BY <1>2, <1>3, <1>10, <1>12, <1>13
  <2> QED BY <2>1, <2>2, <1>14
<1>16. TypeOK'
  <2>1. saved' \in Seq(Graph \union {Empty}) /\ Len(saved') \in 1..(MaxSaves + 1) /\ activeJobs' \subseteq Job
    BY <1>2 DEF TypeOK
  <2>2. Len(run') \in 0..MaxRuns
    BY <1>3, <1>6, <1>9
  <2> QED BY <2>1, <2>2, <1>2, <1>4, <1>5, <1>9, <1>10, <1>11, <1>12, <1>13, <1>15 DEF TypeOK, V
<1>17. ASSUME NEW r \in Runs'
       PROVE  Tidy(saved'[version'[r]].deps, step'[r], exec'[r], run'[r], from'[r], version'[r])
  <2>1. CASE r \in Runs
    <3>1. r \in 1..N /\ Tidy(saved[version[r]].deps, step[r], exec[r], run[r], from[r], version[r])
      BY <2>1 DEF Runs, RunsInv, DepsOf
    <3> QED BY <3>1, <1>2, <1>9, <1>10, <1>11, <1>12, <1>13
  <2>2. CASE r = N + 1
    BY <2>2, <1>2, <1>3, <1>9, <1>10, <1>11, <1>12, <1>13
  <2> QED BY <2>1, <2>2, <1>14
<1> QED BY <1>16, <1>17 DEF RunsInv, DepsOf

\* ... and the end of an execution leaves every run so.
LEMMA JobEndsKeeps ==
  ASSUME TypeOK, RunsInv, NEW r \in Runs, NEW k \in StepsOf(r), JobEnds(r, k)
  PROVE  TypeOK' /\ RunsInv'
<1>1. PICK result \in JobEnded : exec' = [exec EXCEPT ![r][k] = result]
  BY DEF JobEnds
<1>2. exec[r][k] = "active" /\ UNCHANGED <<saved, activeJobs, request, run, version, from, step>>
  BY DEF JobEnds
<1> DEFINE y == [exec[r] EXCEPT ![k] = result]
           N == Len(run)
<1>3. /\ N \in Nat /\ exec \in Seq(PerStep(ExecStatus)) /\ Len(exec) = N /\ Runs = 1..N
  BY DEF TypeOK, Runs
<1>4. exec' = [exec EXCEPT ![r] = y]
  BY <1>1
<1>5. Tidy(DepsOf(r), step[r], exec[r], run[r], from[r], version[r])
  BY DEF RunsInv
<1>6. /\ Tidy(DepsOf(r), step[r], y, run[r], from[r], version[r])
      /\ y \in [saved[version[r]].steps -> ExecStatus]
  BY <1>2, <1>5, RunTypes, EndKeepsTidy
<1>7. y \in PerStep(ExecStatus)
  BY <1>6, RunTypes DEF PerStep
<1> HIDE DEF y
<1>8. /\ exec' \in Seq(PerStep(ExecStatus)) /\ Len(exec') = N
      /\ \A q \in Runs : exec'[q] = IF q = r THEN y ELSE exec[q]
  BY <1>3, <1>4, <1>7
<1>9. Current' = Current /\ Restarts' = Restarts /\ Runs' = Runs
  BY <1>2 DEF Current, Restarts, Runs
<1>10. PerStep(StepStatus)' = PerStep(StepStatus) /\ PerStep(ExecStatus)' = PerStep(ExecStatus)
  BY <1>2, <1>9 DEF PerStep
<1>11. \A q \in Runs : /\ step[q] \in [saved[version[q]].steps -> StepStatus]
                       /\ exec'[q] \in [saved[version[q]].steps -> ExecStatus]
  BY <1>6, <1>8, RunTypes
<1>12. TypeOK'
  BY <1>2, <1>8, <1>9, <1>10, <1>11 DEF TypeOK
<1>13. ASSUME NEW q \in Runs
       PROVE  Tidy(saved'[version'[q]].deps, step'[q], exec'[q], run'[q], from'[q], version'[q])
  <2>1. Tidy(saved[version[q]].deps, step[q], exec[q], run[q], from[q], version[q])
    BY DEF RunsInv, DepsOf
  <2> QED BY <2>1, <1>2, <1>6, <1>8 DEF DepsOf
<1> QED BY <1>9, <1>12, <1>13 DEF RunsInv, DepsOf

\* A tick leaves every run so, and what has ended in it as it ended.
LEMMA FinishedEnded ==
  ASSUME TypeOK, NEW seen \in SUBSET Finished, NEW r \in Runs
  PROVE  Ended(step[r], exec[r], Reflected(r, seen))
<1> DEFINE S == StepsOf(r)
           m == Reflected(r, seen)
<1>1. /\ S = DOMAIN step[r]
      /\ \A k \in S : step[r][k] \in StepStatus
  BY RunTypes DEF StepsOf
<1>2. \A k \in S :
        m[k] = IF step[r][k] = "running" /\ <<r, k>> \in seen
               THEN IF exec[r][k] = "success" THEN "success" ELSE "failed"
               ELSE step[r][k]
  BY DEF Reflected
<1>3. ASSUME NEW k \in S, <<r, k>> \in seen PROVE exec[r][k] \in JobEnded
  <2>1. <<r, k>> \in Finished
    BY <1>3
  <2>2. PICK q \in Runs : <<r, k>> \in {<<q, j>> : j \in {i \in StepsOf(q) : exec[q][i] \in JobEnded}}
    BY <2>1 DEF Finished
  <2>3. PICK j \in StepsOf(q) : exec[q][j] \in JobEnded /\ <<r, k>> = <<q, j>>
    BY <2>2
  <2> QED BY <2>3
<1>4. m \in [S -> StepStatus]
  <2>1. \A k \in S : m[k] \in StepStatus
    BY <1>1, <1>2 DEF StepStatus, StepEnded
  <2>2. m = [k \in S |-> m[k]]
    BY DEF Reflected
  <2> QED BY <2>1, <2>2
<1> HIDE DEF m
<1>5. Ended(step[r], exec[r], m)
  BY <1>1, <1>2, <1>3, <1>4 DEF Ended
<1> QED BY <1>5 DEF m

LEMMA RunningAdvances ==
  ASSUME TypeOK, RunsInv, NEW seen \in SUBSET Finished, NEW r \in Runs, run[r] = "running",
         NEW t, t = Release(version[r], Reflected(r, seen)),
         NEW y, y = Launch(exec[r], step[r], t)
  PROVE  /\ t \in [StepsOf(r) -> StepStatus] /\ y \in [StepsOf(r) -> ExecStatus]
         /\ Tidy(DepsOf(r), t, y, Outcome(StatusesOf(t)), from[r], version[r])
         /\ \A k \in StepsOf(r) : /\ step[r][k] \in StepEnded => t[k] = step[r][k]
                                  /\ exec[r][k] # "none" => y[k] = exec[r][k]
<1>1. PICK G, S, s, x, m, w, v :
        /\ G = DepsOf(r) /\ S = StepsOf(r) /\ s = step[r] /\ x = exec[r]
        /\ m = Reflected(r, seen) /\ w = from[r] /\ v = version[r]
  OBVIOUS
<1>2. v \in 1..Current /\ s \in [S -> StepStatus] /\ x \in [S -> ExecStatus] /\ S = saved[v].steps
  BY <1>1, RunTypes
<1>3. /\ IsFiniteSet(S) /\ G = saved[v].deps /\ \A d \in G : d.up \in S
  BY <1>1, <1>2, GraphsAreSound DEF TypeOK, DepsOf
<1>4. Tidy(G, s, x, "running", w, v)
  BY <1>1 DEF RunsInv
<1>5. Ended(s, x, m)
  BY <1>1, FinishedEnded
<1>6. m \in [S -> StepStatus]
  BY <1>2, <1>5 DEF Ended
<1>7. Released(G, m, t)
  BY <1>1, <1>3, <1>6, ReleaseReleases
<1>8. y = Launch(x, s, t)
  BY <1>1
<1>9. Tidy(G, t, y, Outcome(StatusesOf(t)), w, v)
  BY <1>2, <1>3, <1>4, <1>5, <1>7, <1>8, TickKeepsTidy
<1>10. \A k \in S : /\ s[k] \in StepEnded => t[k] = s[k]
                    /\ x[k] # "none" => y[k] = x[k]
  BY <1>2, <1>4, <1>5, <1>7, <1>8, TickKeepsEnds
<1>11. t \in [S -> StepStatus]
  BY <1>6, <1>7 DEF Released
<1>12. y \in [S -> ExecStatus]
  BY <1>2, <1>8, <1>11 DEF Launch, ExecStatus
<1> QED BY <1>1, <1>9, <1>10, <1>11, <1>12

\* A run that has ended is left alone by a tick; a running one advances.
LEMMA AdvanceRun ==
  ASSUME TypeOK, RunsInv, NEW seen \in SUBSET Finished, Advance(seen), NEW r \in Runs
  PROVE  /\ step'[r] \in [StepsOf(r) -> StepStatus] /\ exec'[r] \in [StepsOf(r) -> ExecStatus]
         /\ run'[r] \in {"running"} \union RunEnded
         /\ run[r] \in RunEnded => run'[r] = run[r]
         /\ Tidy(DepsOf(r), step'[r], exec'[r], run'[r], from[r], version[r])
         /\ \A k \in StepsOf(r) : /\ step[r][k] \in StepEnded => step'[r][k] = step[r][k]
                                  /\ exec[r][k] # "none" => exec'[r][k] = exec[r][k]
<1>1. CASE run[r] = "running"
  <2>1. PICK t, y : /\ t = Release(version[r], Reflected(r, seen)) /\ step'[r] = t
                    /\ y = Launch(exec[r], step[r], t) /\ exec'[r] = y
                    /\ run'[r] = Outcome(StatusesOf(t))
    BY <1>1 DEF Advance
  <2>2. /\ t \in [StepsOf(r) -> StepStatus] /\ y \in [StepsOf(r) -> ExecStatus]
        /\ Tidy(DepsOf(r), t, y, Outcome(StatusesOf(t)), from[r], version[r])
        /\ \A k \in StepsOf(r) : /\ step[r][k] \in StepEnded => t[k] = step[r][k]
                                 /\ exec[r][k] # "none" => y[k] = exec[r][k]
    BY <1>1, <2>1, RunningAdvances
  <2>3. Outcome(StatusesOf(t)) \in {"running"} \union RunEnded /\ "running" \notin RunEnded
    BY DEF Outcome, RunEnded
  <2> QED BY <1>1, <2>1, <2>2, <2>3
<1>2. CASE run[r] # "running"
  <2>1. /\ step'[r] = step[r] /\ exec'[r] = Launch(exec[r], step[r], step[r]) /\ run'[r] = run[r]
    BY <1>2 DEF Advance
  <2>2. /\ step[r] \in [StepsOf(r) -> StepStatus] /\ exec[r] \in [StepsOf(r) -> ExecStatus]
        /\ run[r] \in {"running"} \union RunEnded
    BY RunTypes
  <2>3. Launch(exec[r], step[r], step[r]) = exec[r]
    BY <2>2 DEF Launch
  <2>4. Tidy(DepsOf(r), step[r], exec[r], run[r], from[r], version[r])
    BY DEF RunsInv
  <2> QED BY <2>1, <2>2, <2>3, <2>4
<1> QED BY <1>1, <1>2

LEMMA AdvanceKeeps ==
  ASSUME TypeOK, RunsInv, NEW seen \in SUBSET Finished, Advance(seen)
  PROVE  TypeOK' /\ RunsInv'
<1> DEFINE N == Len(run)
<1>1. UNCHANGED <<saved, activeJobs, request, version, from>>
  BY DEF Advance
<1>2. /\ step' = [r \in 1..N |-> step'[r]]
      /\ exec' = [r \in 1..N |-> exec'[r]]
      /\ run' = [r \in 1..N |-> run'[r]]
  BY DEF Advance, Runs
<1>3. N \in Nat /\ Runs = 1..N
  BY DEF TypeOK, Runs
<1>4. \A r \in Runs : /\ version[r] \in 1..Current
                      /\ StepsOf(r) = saved[version[r]].steps
                      /\ step'[r] \in [saved[version[r]].steps -> StepStatus]
                      /\ exec'[r] \in [saved[version[r]].steps -> ExecStatus]
                      /\ run'[r] \in {"running"} \union RunEnded
  BY RunTypes, AdvanceRun
<1>5. \A r \in Runs : step'[r] \in PerStep(StepStatus) /\ exec'[r] \in PerStep(ExecStatus)
  BY <1>4 DEF PerStep
<1>6. step' \in Seq(PerStep(StepStatus)) /\ Len(step') = N
  BY <1>2, <1>3, <1>5, FunctionIsSeq
<1>7. exec' \in Seq(PerStep(ExecStatus)) /\ Len(exec') = N
  BY <1>2, <1>3, <1>5, FunctionIsSeq
<1>8. run' \in Seq({"running"} \union RunEnded) /\ Len(run') = N
  BY <1>2, <1>3, <1>4, FunctionIsSeq
<1>9. Current' = Current /\ Restarts' = Restarts /\ Runs' = Runs
  BY <1>1, <1>8 DEF Current, Restarts, Runs
<1>10. PerStep(StepStatus)' = PerStep(StepStatus) /\ PerStep(ExecStatus)' = PerStep(ExecStatus)
  BY <1>1, <1>9 DEF PerStep
<1>11. TypeOK'
  BY <1>1, <1>4, <1>6, <1>7, <1>8, <1>9, <1>10 DEF TypeOK
<1>12. ASSUME NEW r \in Runs
       PROVE  Tidy(saved'[version'[r]].deps, step'[r], exec'[r], run'[r], from'[r], version'[r])
  <2>1. Tidy(DepsOf(r), step'[r], exec'[r], run'[r], from[r], version[r])
    BY AdvanceRun
  <2> QED BY <2>1, <1>1 DEF DepsOf
<1> QED BY <1>9, <1>11, <1>12 DEF RunsInv, DepsOf

-----------------------------------------------------------------------------
(* The theorems *)

LEMMA InitKeeps == ASSUME Init PROVE TypeOK /\ RunsInv
<1>1. saved \in Seq(Graph \union {Empty}) /\ Len(saved) = 1 /\ Current = 1
  BY DEF Init, Current
<1>2. /\ run = <<>> /\ version = <<>> /\ from = <<>> /\ step = <<>> /\ exec = <<>>
      /\ request = NoRequest /\ activeJobs = Job
  BY DEF Init
<1>3. Runs = {}
  BY <1>2 DEF Runs
<1>4. /\ run \in Seq({"running"} \union RunEnded) /\ Len(run) = 0
      /\ version \in Seq(1..Current) /\ from \in Seq(Restarts)
      /\ step \in Seq(PerStep(StepStatus)) /\ exec \in Seq(PerStep(ExecStatus))
      /\ Len(version) = 0 /\ Len(from) = 0 /\ Len(step) = 0 /\ Len(exec) = 0
  BY <1>2
<1>5. TypeOK
  BY <1>1, <1>2, <1>3, <1>4, RunsAssumption DEF TypeOK
<1> QED BY <1>3, <1>5 DEF RunsInv

LEMMA NextKeeps == ASSUME TypeOK, RunsInv, [Next]_vars PROVE TypeOK' /\ RunsInv'
<1>1. CASE SaveGraph
  BY <1>1, SaveGraphKeeps
<1>2. ASSUME NEW j \in Job, ToggleJob(j) PROVE TypeOK' /\ RunsInv'
  <2>1. UNCHANGED <<saved, request, runVars>> /\ activeJobs' \subseteq Job
    BY <1>2 DEF ToggleJob, TypeOK
  <2> QED BY <2>1, RequestsKeep
<1>3. CASE RunPipeline \/ BackfillPipeline
  <2>1. \E restart \in Restarts : ReadPipeline(restart)
    BY <1>3 DEF RunPipeline, BackfillPipeline, Restarts
  <2>2. UNCHANGED <<saved, activeJobs, runVars>> /\ activeJobs \subseteq Job
    BY <2>1 DEF ReadPipeline, TypeOK
  <2> QED BY <2>1, <2>2, RequestsKeep
<1>4. CASE StartRun
  BY <1>4, StartRunKeeps
<1>5. ASSUME NEW seen \in SUBSET Finished, Advance(seen) PROVE TypeOK' /\ RunsInv'
  BY <1>5, AdvanceKeeps
<1>6. CASE SomeJobEnds
  BY <1>6, JobEndsKeeps DEF SomeJobEnds
<1>7. CASE UNCHANGED vars
  <2>1. UNCHANGED <<saved, activeJobs, request, runVars>>
    BY <1>7 DEF vars, runVars
  <2>2. activeJobs' \subseteq Job
    BY <2>1 DEF TypeOK
  <2> QED BY <2>1, <2>2, RequestsKeep
<1> QED BY <1>1, <1>2, <1>3, <1>4, <1>5, <1>6, <1>7 DEF Next, Environment

\* The rows of the pipelines, their runs and their steps are what they should be: each
\* run has the steps of the graph that it was started with, saved since or not.
THEOREM PipelinesTypeCorrect == Spec => []TypeOK
<1>1. Init => TypeOK /\ RunsInv
  BY InitKeeps
<1>2. TypeOK /\ RunsInv /\ [Next]_vars => TypeOK' /\ RunsInv'
  BY NextKeeps
<1> QED BY <1>1, <1>2, PTL DEF Spec

\* What the runner relies on in every state: a run that is going has a pipeline and a
\* graph without cycles, what it launched has an execution of its own, and the steps it
\* waits for, launched, skipped or reused follow their dependencies (RunsInv).
THEOREM RunsAreTidy == Spec => [](TypeOK /\ RunsInv)
<1>1. Init => TypeOK /\ RunsInv
  BY InitKeeps
<1>2. TypeOK /\ RunsInv /\ [Next]_vars => TypeOK' /\ RunsInv'
  BY NextKeeps
<1> QED BY <1>1, <1>2, PTL DEF Spec

\* _release_ready_steps launches a step only when each step it depends on has ended as
\* the dependency asks, and skips one only when one of these ended otherwise; whatever
\* graph is saved, job disabled or step restarted meanwhile, and however many ticks
\* the executions take.
THEOREM ReleasedInOrder == Spec => []StepsFollowDependencies
<1>1. TypeOK /\ RunsInv => StepsFollowDependencies
  BY DEF RunsInv, Tidy, StepsFollowDependencies, StepsOf
<1> QED BY <1>1, RunsAreTidy, PTL

\* start_pipeline_execution with a restart launches only the restart step and what comes
\* after it (_downstream_closure) in the graph the run was started with: nothing at all
\* when the graph was saved again and the step is no longer in it.
THEOREM RestartsStayDownstream == Spec => []RestartsOnlyDownstream
<1>1. TypeOK /\ RunsInv => RestartsOnlyDownstream
  <2>1. SUFFICES ASSUME TypeOK, RunsInv, NEW r \in Runs, from[r] # NoStep, NEW k \in StepsOf(r),
                        exec[r][k] # "none"
                 PROVE  /\ from[r][1] = version[r]
                        /\ \A S \in SUBSET StepsOf(r) :
                             /\ from[r][2] \in S
                             /\ \A d \in DepsOf(r) : d.up \in S => d.down \in S
                             => k \in S
    BY DEF RestartsOnlyDownstream
  <2>2. Within(DepsOf(r), StepsOf(r), from[r], version[r], k)
    BY <2>1 DEF RunsInv, Tidy, StepsOf
  <2> QED BY <2>1, <2>2 DEF Within
<1> QED BY <1>1, RunsAreTidy, PTL

\* One step of the system as EndsAreFinal asks, of run r.
FinalStep(r) ==
  /\ run[r] \in RunEnded => run'[r] = run[r]
  /\ run'[r] \in RunEnded => \A k \in StepsOf(r) :
       exec'[r][k] # "active" /\ (run'[r] = "success" => exec'[r][k] \in {"none", "success"})
  /\ \A k \in StepsOf(r) :
       /\ step[r][k] \in StepEnded => step'[r][k] = step[r][k]
       /\ exec[r][k] \in JobEnded => exec'[r][k] = exec[r][k]

\* A run that is so, and changes only as it may, goes on as EndsAreFinal asks.
LEMMA TidyEnds ==
  ASSUME NEW deps, NEW S, NEW s \in [S -> StepStatus], NEW x, NEW status, NEW restart, NEW v,
         Tidy(deps, s, x, status, restart, v), status \in RunEnded, NEW k \in S
  PROVE  x[k] # "active" /\ (status = "success" => x[k] \in {"none", "success"})
<1>1. DOMAIN s = S /\ s[k] \in StepEnded /\ s[k] # "running"
  BY DEF Tidy, StepEnded
<1>2. status = "success" => s[k] = "success"
  BY <1>1 DEF Tidy
<1> QED BY <1>1, <1>2 DEF Tidy

LEMMA NextEnds ==
  ASSUME TypeOK, RunsInv, [Next]_vars, NEW r \in Runs
  PROVE  FinalStep(r) /\ r \in Runs'
<1>1. TypeOK' /\ RunsInv'
  BY NextKeeps
<1>2. /\ run'[r] = run[r] \/ run[r] \notin RunEnded
      /\ step'[r] \in [StepsOf(r) -> StepStatus]
      /\ r \in Runs'
      /\ \A k \in StepsOf(r) : /\ step[r][k] \in StepEnded => step'[r][k] = step[r][k]
                               /\ exec[r][k] \in JobEnded => exec'[r][k] = exec[r][k]
  <2>0. step[r] \in [StepsOf(r) -> StepStatus]
    BY RunTypes
  <2>1. CASE UNCHANGED runVars
    BY <2>0, <2>1 DEF runVars, Runs
  <2>2. CASE StartRun
    <3>1. PICK t, x : run' = Append(run, "running") /\ step' = Append(step, t) /\ exec' = Append(exec, x)
      BY <2>2 DEF StartRun
    <3>2. /\ run \in Seq({"running"} \union RunEnded) /\ r \in 1..Len(run)
          /\ step \in Seq(PerStep(StepStatus)) /\ exec \in Seq(PerStep(ExecStatus))
          /\ Len(step) = Len(run) /\ Len(exec) = Len(run)
      BY DEF TypeOK, Runs
    <3>3. run'[r] = run[r] /\ step'[r] = step[r] /\ exec'[r] = exec[r] /\ r \in Runs'
      BY <3>1, <3>2 DEF Runs
    <3> QED BY <2>0, <3>3
  <2>3. ASSUME NEW seen \in SUBSET Finished, Advance(seen)
        PROVE  /\ run[r] \in RunEnded => run'[r] = run[r]
               /\ step'[r] \in [StepsOf(r) -> StepStatus]
               /\ r \in Runs'
               /\ \A k \in StepsOf(r) : /\ step[r][k] \in StepEnded => step'[r][k] = step[r][k]
                                        /\ exec[r][k] \in JobEnded => exec'[r][k] = exec[r][k]
    <3>1. Len(run') = Len(run)
      BY <2>3 DEF Advance, Runs, TypeOK
    <3>2. "none" \notin JobEnded
      BY DEF JobEnded
    <3> QED BY <2>3, <3>1, <3>2, AdvanceRun DEF Runs
  <2>4. ASSUME NEW q \in Runs, NEW j \in StepsOf(q), JobEnds(q, j)
        PROVE  /\ run'[r] = run[r] /\ step'[r] = step[r] /\ r \in Runs'
               /\ \A k \in StepsOf(r) : exec[r][k] \in JobEnded => exec'[r][k] = exec[r][k]
    <3>1. PICK result \in JobEnded : exec' = [exec EXCEPT ![q][j] = result]
      BY <2>4 DEF JobEnds
    <3>2. exec[q][j] \notin JobEnded /\ run' = run /\ step' = step
      BY <2>4 DEF JobEnds, JobEnded
    <3>3. \A k \in StepsOf(r) : r # q \/ k # j => exec'[r][k] = exec[r][k]
      <4>1. r \in DOMAIN exec
        BY DEF TypeOK, Runs
      <4> QED BY <3>1, <4>1
    <3> QED BY <3>2, <3>3 DEF Runs
  <2>5. /\ SaveGraph => UNCHANGED runVars
        /\ \A j \in Job : ToggleJob(j) => UNCHANGED runVars
        /\ RunPipeline \/ BackfillPipeline => UNCHANGED runVars
        /\ UNCHANGED vars => UNCHANGED runVars
    BY DEF SaveGraph, ToggleJob, RunPipeline, BackfillPipeline, ReadPipeline, vars, runVars
  <2> QED BY <2>0, <2>1, <2>2, <2>3, <2>4, <2>5 DEF Next, Environment, SomeJobEnds
<1>3. PICK deps, S, s, x, status, restart, v :
        /\ S = StepsOf(r) /\ s = step'[r] /\ x = exec'[r] /\ status = run'[r]
        /\ Tidy(deps, s, x, status, restart, v)
  <2>1. Tidy(saved'[version'[r]].deps, step'[r], exec'[r], run'[r], from'[r], version'[r])
    BY <1>1, <1>2 DEF RunsInv, DepsOf
  <2> QED BY <2>1
<1>4. ASSUME status \in RunEnded, NEW k \in S
      PROVE  x[k] # "active" /\ (status = "success" => x[k] \in {"none", "success"})
  <2>1. s \in [S -> StepStatus]
    BY <1>2, <1>3
  <2> QED BY <1>3, <1>4, <2>1, TidyEnds
<1> QED BY <1>2, <1>3, <1>4 DEF FinalStep

\* What has ended stays as it ended: a step is not released twice, and no run is
\* reopened.  A run ends only when none of its jobs is running, as a success only when
\* each that it launched succeeded.
THEOREM PipelinesEndForGood == Spec => EndsAreFinal
<1>1. TypeOK /\ RunsInv /\ [Next]_vars => [\A r \in Runs : FinalStep(r)]_vars
  BY NextEnds
<1> QED BY <1>1, RunsAreTidy, PTL DEF Spec, EndsAreFinal, FinalStep

-----------------------------------------------------------------------------
(* Backfills *)

Row == [status : {"running"} \union BackfillEnded,
        run : 0..Len(run), execs : SUBSET (1..Len(jobExec))]

\* A backfill that is over has the status of its pipeline run, which is over too, or the
\* one that its executions add up to, none of them active.
Rolled(b) ==
  backfill[b].status # "running" =>
    /\ backfill[b].run # 0 => run[backfill[b].run] = backfill[b].status
    /\ backfill[b].run = 0 => \A i \in backfill[b].execs :
         /\ jobExec[i] # "active"
         /\ backfill[b].status = "success" => jobExec[i] = "success"
         /\ backfill[b].status = "failed" => jobExec[i] # "success"

BackfillsInv == \A b \in Backfills : Rolled(b)

\* A backfill acts on the pipelines as a user or the worker does, or not at all.
LEMMA BackfillSteps == ASSUME [BNext]_bvars PROVE [Next]_vars
  BY DEF BNext, bvars, CreateOfJobs, Start, Read, ExecutionEnds, RollUp, Next, Environment, vars

LEMMA RowTypes ==
  ASSUME BackfillsOK, NEW b \in Backfills
  PROVE  /\ backfill[b] \in Row
         /\ backfill[b].run \in 0..Len(run) /\ backfill[b].execs \subseteq 1..Len(jobExec)
         /\ backfill[b].status \in {"running"} \union BackfillEnded
<1>1. backfill \in Seq(Row) /\ b \in 1..Len(backfill)
  BY DEF BackfillsOK, Row, Backfills
<1>2. backfill[b] \in Row
  BY <1>1
<1> QED BY <1>2 DEF Row

\* What was right of the backfills that there were stays right.
LEMMA OldBackfills ==
  ASSUME BackfillsOK, RunsInv, BackfillsInv, [BNext]_bvars, NEW b \in Backfills,
         backfill'[b] = backfill[b],
         \A i \in 1..Len(jobExec) : jobExec'[i] = jobExec[i] \/ jobExec[i] = "active"
  PROVE  Rolled(b)'
<1>1. /\ backfill[b].run \in 0..Len(run) /\ backfill[b].execs \subseteq 1..Len(jobExec)
      /\ backfill[b].status \in {"running"} \union BackfillEnded
  BY RowTypes
<1>2. SUFFICES ASSUME backfill[b].status # "running"
               PROVE  /\ backfill[b].run # 0 => run'[backfill[b].run] = backfill[b].status
                      /\ backfill[b].run = 0 => \A i \in backfill[b].execs :
                           /\ jobExec'[i] # "active"
                           /\ backfill[b].status = "success" => jobExec'[i] = "success"
                           /\ backfill[b].status = "failed" => jobExec'[i] # "success"
  BY DEF Rolled
<1>3. Rolled(b)
  BY DEF BackfillsInv
<1>4. ASSUME backfill[b].run # 0 PROVE run'[backfill[b].run] = backfill[b].status
  <2>1. PICK r \in Runs : r = backfill[b].run
    BY <1>1, <1>4 DEF Runs, BackfillsOK, TypeOK
  <2>2. run[r] = backfill[b].status /\ run[r] \in {"running"} \union RunEnded
    BY <1>2, <1>3, <1>4, <2>1, RunTypes DEF Rolled, BackfillsOK
  <2>3. run[r] \in RunEnded
    BY <1>2, <2>2
  <2>4. FinalStep(r)
    BY BackfillSteps, NextEnds DEF BackfillsOK
  <2> QED BY <2>1, <2>2, <2>3, <2>4 DEF FinalStep
<1>5. ASSUME backfill[b].run = 0, NEW i \in backfill[b].execs
      PROVE  jobExec'[i] = jobExec[i]
  BY <1>1, <1>2, <1>3, <1>5 DEF Rolled
<1> QED BY <1>2, <1>3, <1>4, <1>5 DEF Rolled

\* The rows of the backfills go on as they should when the runs and the executions are
\* at least as many.
LEMMA RowsKept ==
  ASSUME BackfillsOK, Len(run') \in Nat, Len(jobExec') \in Nat,
         Len(run) <= Len(run'), Len(jobExec) <= Len(jobExec')
  PROVE  backfill \in Seq(Row')
<1>1. Len(run) \in Nat /\ Len(jobExec) \in Nat
  BY DEF BackfillsOK, TypeOK
<1>2. 0..Len(run) \subseteq 0..Len(run') /\ 1..Len(jobExec) \subseteq 1..Len(jobExec')
  BY <1>1
<1>3. Row \subseteq Row'
  BY <1>2 DEF Row
<1>4. backfill \in Seq(Row)
  BY DEF BackfillsOK, Row
<1> QED BY <1>3, <1>4, SeqGrows

LEMMA RunsGrow ==
  
  ASSUME TypeOK, RunsInv, [Next]_vars
  PROVE  TypeOK' /\ Len(run) \in Nat /\ Len(run') \in Nat /\ Len(run) <= Len(run')
<1>1. TypeOK'
  BY NextKeeps
<1>2. Len(run) \in Nat /\ Len(run') \in Nat
  BY <1>1 DEF TypeOK
<1>3. ASSUME Len(run) # 0 PROVE Len(run) <= Len(run')
  <2>1. Len(run) \in Runs
    BY <1>2, <1>3 DEF Runs
  <2> QED BY <1>2, <2>1, NextEnds DEF Runs
<1> QED BY <1>1, <1>2, <1>3

LEMMA CreateOfJobsKeeps ==
  ASSUME BackfillsOK, RunsInv, BackfillsInv, CreateOfJobs PROVE BackfillsOK' /\ BackfillsInv'
<1>1. PICK jobs \in SUBSET activeJobs :
        /\ jobExec' = jobExec \o [i \in 1..Cardinality(jobs) |-> "active"]
        /\ Requested(0, Len(jobExec) + 1 .. Len(jobExec) + Cardinality(jobs))
  BY DEF CreateOfJobs
<1>2. /\ Len(backfill) + (IF asked THEN 1 ELSE 0) < MaxBackfills
      /\ UNCHANGED <<vars, asked>>
  BY DEF CreateOfJobs
<1>3. IsFiniteSet(jobs)
  BY FS_Subset, BackfillsAssumption DEF BackfillsOK, TypeOK
<1>4. PICK n \in Nat : n = Cardinality(jobs)
  BY <1>3, FS_CardinalityType
<1>5. PICK e : e = [status |-> IF Len(jobExec) + 1 .. Len(jobExec) + n = {} THEN "success" ELSE "running",
                    run |-> 0, execs |-> Len(jobExec) + 1 .. Len(jobExec) + n]
  OBVIOUS
<1>6. backfill' = Append(backfill, e)
  BY <1>1, <1>4, <1>5 DEF Requested
<1>7. PICK more : more = [i \in 1..n |-> "active"] /\ jobExec' = jobExec \o more
  BY <1>1, <1>4
<1>20. more \in Seq({"active"} \union JobEnded) /\ Len(more) = n
  <2>1. /\ more = [i \in 1..n |-> more[i]]
        /\ \A i \in 1..n : more[i] \in {"active"} \union JobEnded
    BY <1>7
  <2> QED BY <2>1, FunctionIsSeq
<1>8. /\ jobExec' \in Seq({"active"} \union JobEnded) /\ Len(jobExec') = Len(jobExec) + n
      /\ Len(jobExec) \in Nat
      /\ \A i \in 1..Len(jobExec) : jobExec'[i] = jobExec[i]
  BY <1>7, <1>20 DEF BackfillsOK
<1>9. UNCHANGED <<run, asked>> /\ Len(run) \in Nat
  BY <1>2 DEF vars, BackfillsOK, TypeOK
<1>10. TypeOK'
  BY <1>2, RunsGrow DEF BackfillsOK, vars
<1>11. backfill \in Seq(Row')
  BY <1>8, <1>9, RowsKept
<1>12. e \in Row'
  <2>1. Len(jobExec) + 1 .. Len(jobExec) + n \subseteq 1..Len(jobExec')
    BY <1>8
  <2>2. 0 \in 0..Len(run')
    BY <1>9
  <2>3. e.status \in {"running"} \union BackfillEnded
    BY <1>5 DEF BackfillEnded
  <2>4. e = [status |-> e.status, run |-> 0, execs |-> Len(jobExec) + 1 .. Len(jobExec) + n]
    BY <1>5
  <2> QED BY <2>1, <2>2, <2>3, <2>4 DEF Row
<1>13. /\ backfill' \in Seq(Row') /\ Len(backfill') = Len(backfill) + 1
       /\ \A b \in 1..Len(backfill) : backfill'[b] = backfill[b]
       /\ backfill'[Len(backfill) + 1] = e
  BY <1>6, <1>11, <1>12, AppendIs
<1>14. Len(backfill) \in Nat
  BY <1>11
<1>15. Len(backfill') + (IF asked' THEN 1 ELSE 0) \in 0..MaxBackfills
  BY <1>2, <1>9, <1>13, <1>14, BackfillsAssumption
<1>16. BackfillsOK'
  <2>1. asked' \in BOOLEAN
    BY <1>9 DEF BackfillsOK
  <2> QED BY <2>1, <1>8, <1>10, <1>13, <1>15 DEF BackfillsOK, Row
<1>17. ASSUME NEW b \in Backfills' PROVE Rolled(b)'
  <2>1. CASE b \in Backfills
    <3>1. backfill'[b] = backfill[b]
      BY <2>1, <1>13 DEF Backfills
    <3>2. [BNext]_bvars
      BY DEF BNext
    <3> QED BY <2>1, <3>1, <3>2, <1>8, OldBackfills
  <2>2. CASE b = Len(backfill) + 1
    <3>1. backfill'[b] = e
      BY <2>2, <1>13
    <3>2. e.run = 0 /\ (e.status # "running" => e.execs = {})
      BY <1>5
    <3> QED BY <3>1, <3>2 DEF Rolled
  <2> QED BY <2>1, <2>2, <1>13, <1>14 DEF Backfills
<1> QED BY <1>16, <1>17 DEF BackfillsInv

\* An action of the pipelines that no backfill started leaves the backfills so, and so
\* does the reading of a request.
LEMMA PipelinesKeep ==
  ASSUME BackfillsOK, RunsInv, BackfillsInv, [BNext]_bvars, UNCHANGED <<backfill, jobExec>>,
         asked' \in BOOLEAN, Len(backfill) + (IF asked' THEN 1 ELSE 0) \in 0..MaxBackfills
  PROVE  BackfillsOK' /\ BackfillsInv'
<1>1. TypeOK' /\ Len(run) \in Nat /\ Len(run') \in Nat /\ Len(run) <= Len(run')
  BY BackfillSteps, RunsGrow DEF BackfillsOK
<1>2. Len(jobExec) \in Nat
  BY DEF BackfillsOK
<1>3. backfill \in Seq(Row')
  BY <1>1, <1>2, RowsKept
<1>4. BackfillsOK'
  BY <1>1, <1>3 DEF BackfillsOK, Row
<1>5. ASSUME NEW b \in Backfills PROVE Rolled(b)'
  BY OldBackfills
<1> QED BY <1>4, <1>5 DEF BackfillsInv, Backfills

LEMMA StartKeeps ==
  ASSUME BackfillsOK, RunsInv, BackfillsInv, Start PROVE BackfillsOK' /\ BackfillsInv'
<1>1. StartRun /\ asked' = FALSE /\ UNCHANGED jobExec /\ [BNext]_bvars
  BY DEF Start, BNext
<1>2. CASE ~asked
  <2>1. UNCHANGED backfill /\ asked' \in BOOLEAN
    BY <1>1, <1>2 DEF Start
  <2>2. Len(backfill) + (IF asked' THEN 1 ELSE 0) \in 0..MaxBackfills
    BY <1>1, <1>2 DEF BackfillsOK
  <2> QED BY <1>1, <2>1, <2>2, PipelinesKeep
<1>3. CASE asked
  <2>1. PICK e : /\ e = [status |-> "running", run |-> Len(run) + 1, execs |-> {}]
                 /\ backfill' = Append(backfill, e)
    <3>1. Requested(Len(run) + 1, {}) /\ Len(run) \in Nat
      BY <1>3 DEF Start, BackfillsOK, TypeOK
    <3> QED BY <3>1 DEF Requested
  <2>2. TypeOK' /\ Len(run) \in Nat /\ Len(run') \in Nat /\ Len(run) <= Len(run')
    BY <1>1, BackfillSteps, RunsGrow DEF BackfillsOK
  <2>3. Len(jobExec) \in Nat /\ jobExec' = jobExec
    BY <1>1 DEF BackfillsOK
  <2>4. backfill \in Seq(Row')
    BY <2>2, <2>3, RowsKept
  <2>5. Len(run') = Len(run) + 1
    <3>1. run \in Seq({"running"} \union RunEnded) /\ run' = Append(run, "running")
      BY <1>1 DEF StartRun, BackfillsOK, TypeOK
    <3> QED BY <3>1
  <2>6. e \in Row'
    <3>1. Len(run) + 1 \in 0..Len(run')
      BY <2>2, <2>5
    <3> QED BY <2>1, <3>1 DEF Row
  <2>7. /\ backfill' \in Seq(Row') /\ Len(backfill') = Len(backfill) + 1
        /\ \A b \in 1..Len(backfill) : backfill'[b] = backfill[b]
        /\ backfill'[Len(backfill) + 1] = e
    BY <2>1, <2>4, <2>6, AppendIs
  <2>8. Len(backfill) \in Nat /\ Len(backfill) + 1 \in 0..MaxBackfills
    BY <1>3, <2>4 DEF BackfillsOK
  <2>9. Len(backfill') + (IF asked' THEN 1 ELSE 0) \in 0..MaxBackfills
    BY <1>1, <2>7, <2>8
  <2>10. BackfillsOK'
    BY <1>1, <2>2, <2>3, <2>7, <2>9 DEF BackfillsOK, Row
  <2>11. ASSUME NEW b \in Backfills' PROVE Rolled(b)'
    <3>1. CASE b \in Backfills
      <4>1. backfill'[b] = backfill[b]
        BY <3>1, <2>7 DEF Backfills
      <4> QED BY <3>1, <4>1, <1>1, <2>3, OldBackfills
    <3>2. CASE b = Len(backfill) + 1
      <4>1. backfill'[b] = e /\ e.status = "running"
        BY <3>2, <2>1, <2>7
      <4> QED BY <4>1 DEF Rolled
    <3> QED BY <3>1, <3>2, <2>7, <2>8 DEF Backfills
  <2> QED BY <2>10, <2>11 DEF BackfillsInv
<1> QED BY <1>2, <1>3 DEF BackfillsOK

LEMMA ExecutionEndsKeeps ==
  ASSUME BackfillsOK, RunsInv, BackfillsInv, NEW i \in 1..Len(jobExec), ExecutionEnds(i)
  PROVE  BackfillsOK' /\ BackfillsInv'
<1>1. PICK result \in JobEnded : jobExec' = [jobExec EXCEPT ![i] = result]
  BY DEF ExecutionEnds
<1>2. jobExec[i] = "active" /\ UNCHANGED <<vars, asked, backfill>> /\ [BNext]_bvars
  BY DEF ExecutionEnds, BNext
<1>3. /\ jobExec' \in Seq({"active"} \union JobEnded) /\ Len(jobExec') = Len(jobExec)
      /\ Len(jobExec) \in Nat
      /\ \A j \in 1..Len(jobExec) : jobExec'[j] = jobExec[j] \/ jobExec[j] = "active"
  BY <1>1, <1>2 DEF BackfillsOK
<1>4. TypeOK' /\ Len(run) \in Nat /\ Len(run') \in Nat /\ Len(run) <= Len(run')
  BY <1>2, BackfillSteps, RunsGrow DEF BackfillsOK
<1>5. backfill \in Seq(Row')
  BY <1>3, <1>4, RowsKept
<1>6. BackfillsOK'
  BY <1>2, <1>3, <1>4, <1>5 DEF BackfillsOK, Row
<1>7. ASSUME NEW b \in Backfills PROVE Rolled(b)'
  BY <1>2, <1>3, OldBackfills
<1> QED BY <1>2, <1>6, <1>7 DEF BackfillsInv, Backfills

\* What the tick makes of a backfill that is running is what its work adds up to.
LEMMA RolledUpIs ==
  ASSUME BackfillsOK, NEW b \in Backfills, NEW w, w = RolledUp(b)
  PROVE  /\ w \in {"running"} \union BackfillEnded
         /\ w # "running" =>
              /\ backfill[b].run # 0 => run[backfill[b].run] = w
              /\ backfill[b].run = 0 => \A i \in backfill[b].execs :
                   /\ jobExec[i] # "active"
                   /\ w = "success" => jobExec[i] = "success"
                   /\ w = "failed" => jobExec[i] # "success"
<1>1. CASE backfill[b].run # 0
  <2>1. w = RolledUpRun(run[backfill[b].run])
    BY <1>1 DEF RolledUp
  <2> QED BY <1>1, <2>1 DEF RolledUpRun, BackfillEnded
<1>2. CASE backfill[b].run = 0
  <2>1. PICK results : results = {jobExec[i] : i \in backfill[b].execs} /\ w = RolledUpJobs(results)
    BY <1>2 DEF RolledUp
  <2>2. \A i \in backfill[b].execs : jobExec[i] \in results
    BY <2>1
  <2>3. w \in {"running"} \union BackfillEnded
    BY <2>1 DEF RolledUpJobs, BackfillEnded
  <2>4. ASSUME w # "running", NEW i \in backfill[b].execs
        PROVE  /\ jobExec[i] # "active"
               /\ w = "success" => jobExec[i] = "success"
               /\ w = "failed" => jobExec[i] # "success"
    BY <2>1, <2>2, <2>4 DEF RolledUpJobs
  <2> QED BY <1>2, <2>3, <2>4
<1> QED BY <1>1, <1>2

LEMMA RollUpKeeps ==
  ASSUME BackfillsOK, RunsInv, BackfillsInv, NEW due \in SUBSET Open, RollUp(due)
  PROVE  BackfillsOK' /\ BackfillsInv'
<1> DEFINE N == Len(backfill)
<1>1. UNCHANGED <<vars, asked, jobExec>> /\ [BNext]_bvars
  BY DEF RollUp, BNext
<1>2. /\ run' = run /\ TypeOK'
  BY <1>1, BackfillSteps, RunsGrow DEF BackfillsOK, vars
<1>3. N \in Nat /\ Backfills = 1..N
  BY DEF BackfillsOK, Backfills
<1>4. backfill' = [b \in 1..N |-> backfill'[b]]
  BY DEF RollUp, Backfills
<1>5. ASSUME NEW b \in Backfills, b \notin due PROVE backfill'[b] = backfill[b] /\ backfill'[b] \in Row
  BY <1>5, RowTypes DEF RollUp
<1>6. ASSUME NEW b \in Backfills, b \in due
      PROVE  backfill'[b] \in Row /\ Rolled(b)'
  <2>1. PICK w : w = RolledUp(b) /\ backfill'[b] = [backfill[b] EXCEPT !.status = w]
    BY <1>6 DEF RollUp
  <2>2. w \in {"running"} \union BackfillEnded
    BY <2>1, RolledUpIs
  <2>3. backfill'[b] \in Row
    BY <2>1, <2>2, RowTypes DEF Row
  <2>4. backfill'[b].status = w /\ backfill'[b].run = backfill[b].run /\ backfill'[b].execs = backfill[b].execs
    BY <2>1, RowTypes DEF Row
  <2>5. w # "running" =>
          /\ backfill[b].run # 0 => run[backfill[b].run] = w
          /\ backfill[b].run = 0 => \A i \in backfill[b].execs :
               /\ jobExec[i] # "active"
               /\ w = "success" => jobExec[i] = "success"
               /\ w = "failed" => jobExec[i] # "success"
    BY <2>1, RolledUpIs
  <2>6. Rolled(b)'
    BY <2>4, <2>5, <1>1, <1>2 DEF Rolled
  <2> QED BY <2>3, <2>6
<1>7. backfill' \in Seq(Row) /\ Len(backfill') = N
  BY <1>3, <1>4, <1>5, <1>6, FunctionIsSeq
<1>8. BackfillsOK'
  <2>1. Row' = Row
    BY <1>1, <1>2 DEF Row
  <2>2. backfill' \in Seq(Row')
    BY <1>7, <2>1
  <2> QED BY <1>1, <1>2, <1>7, <2>2 DEF BackfillsOK, Row
<1>9. ASSUME NEW b \in Backfills PROVE Rolled(b)'
  <2>1. CASE b \in due
    BY <2>1, <1>6
  <2>2. CASE b \notin due
    BY <2>2, <1>1, <1>5, OldBackfills
  <2> QED BY <2>1, <2>2
<1> QED BY <1>7, <1>8, <1>9 DEF BackfillsInv, Backfills

LEMMA BackfillNextKeeps ==
  ASSUME BackfillsOK, RunsInv, BackfillsInv, [BNext]_bvars
  PROVE  BackfillsOK' /\ BackfillsInv' /\ RunsInv'
<1>1. RunsInv'
  BY BackfillSteps, NextKeeps DEF BackfillsOK
<1>2. CASE CreateOfJobs
  BY <1>1, <1>2, CreateOfJobsKeeps
<1>3. CASE Start
  BY <1>1, <1>3, StartKeeps
<1>4. CASE Read /\ UNCHANGED <<backfill, jobExec>>
  <2>1. /\ asked' \in BOOLEAN
        /\ asked' => Len(backfill) < MaxBackfills
    BY <1>4 DEF Read
  <2>2. Len(backfill) \in Nat /\ Len(backfill) + (IF asked THEN 1 ELSE 0) \in 0..MaxBackfills
    BY DEF BackfillsOK
  <2>3. Len(backfill) + (IF asked' THEN 1 ELSE 0) \in 0..MaxBackfills
    BY <2>1, <2>2, BackfillsAssumption
  <2> QED BY <1>1, <1>4, <2>1, <2>3, PipelinesKeep
<1>5. ASSUME NEW i \in 1..Len(jobExec), ExecutionEnds(i) PROVE BackfillsOK' /\ BackfillsInv'
  BY <1>5, ExecutionEndsKeeps
<1>6. ASSUME NEW due \in SUBSET Open, RollUp(due) PROVE BackfillsOK' /\ BackfillsInv'
  BY <1>6, RollUpKeeps
<1>7. CASE UNCHANGED <<asked, backfill, jobExec>>
  BY <1>1, <1>7, PipelinesKeep DEF BackfillsOK
<1> QED BY <1>1, <1>2, <1>3, <1>4, <1>5, <1>6, <1>7 DEF BNext, bvars

LEMMA BackfillInitKeeps == ASSUME BInit PROVE BackfillsOK /\ BackfillsInv /\ RunsInv
<1>1. TypeOK /\ RunsInv /\ asked = FALSE /\ backfill = <<>> /\ jobExec = <<>>
  BY InitKeeps DEF BInit
<1>2. backfill \in Seq(Row) /\ Len(backfill) = 0 /\ jobExec \in Seq({"active"} \union JobEnded)
  BY <1>1
<1>3. asked \in BOOLEAN
  BY <1>1, Zenon
<1>4. Len(backfill) + (IF asked THEN 1 ELSE 0) \in 0..MaxBackfills
  <2>1. Len(backfill) + (IF asked THEN 1 ELSE 0) = 0
    BY <1>1, <1>2
  <2> QED BY <2>1, BackfillsAssumption
<1>5. BackfillsOK
  BY <1>1, <1>2, <1>3, <1>4 DEF BackfillsOK, Row
<1> QED BY <1>1, <1>5 DEF BackfillsInv, Backfills

\* The system with the backfills runs the pipelines as it does without them.
THEOREM BackfillsRunPipelines == BSpec => Spec
<1>1. BInit => Init
  BY DEF BInit
<1>2. [BNext]_bvars => [Next]_vars
  BY BackfillSteps
<1> QED BY <1>1, <1>2, PTL DEF BSpec, Spec

\* The backfills, the runs that serve them and the executions of their jobs are what they
\* should be: an item is of a run or an execution that exists, and is not pending once
\* it has one.
THEOREM BackfillsTypeCorrect == BSpec => []BackfillsOK
<1>1. BInit => BackfillsOK /\ RunsInv /\ BackfillsInv
  BY BackfillInitKeeps
<1>2. BackfillsOK /\ RunsInv /\ BackfillsInv /\ [BNext]_bvars
        => BackfillsOK' /\ RunsInv' /\ BackfillsInv'
  BY BackfillNextKeeps
<1> QED BY <1>1, <1>2, PTL DEF BSpec

\* advance_backfills ends a backfill only when its pipeline run, or each execution that
\* it started, has ended: as a success only when all of them succeeded, and one of jobs
\* as a failure only when none did.
THEOREM BackfillsEndWithTheirWork == BSpec => []BackfillEndsWithItsWork
<1>1. BInit => BackfillsOK /\ RunsInv /\ BackfillsInv
  BY BackfillInitKeeps
<1>2. BackfillsOK /\ RunsInv /\ BackfillsInv /\ [BNext]_bvars
        => BackfillsOK' /\ RunsInv' /\ BackfillsInv'
  BY BackfillNextKeeps
<1>3. ASSUME BackfillsOK, RunsInv, BackfillsInv PROVE BackfillEndsWithItsWork
  <2>1. SUFFICES ASSUME NEW b \in Backfills, backfill[b].status # "running"
                 PROVE  /\ "active" \notin WorkOf(b)
                        /\ backfill[b].status = "success" => WorkOf(b) \subseteq {"success"}
                        /\ backfill[b].status = "failed" /\ backfill[b].run = 0 => "success" \notin WorkOf(b)
    BY DEF BackfillEndsWithItsWork
  <2>2. Rolled(b)
    BY <1>3 DEF BackfillsInv
  <2>3. CASE backfill[b].run = 0
    <3>1. WorkOf(b) = {jobExec[i] : i \in backfill[b].execs}
      BY <2>3 DEF WorkOf
    <3> QED BY <2>1, <2>2, <2>3, <3>1 DEF Rolled
  <2>4. CASE backfill[b].run # 0
    <3>1. PICK r \in Runs : r = backfill[b].run
      BY <1>3, <2>4, RowTypes DEF Runs, BackfillsOK, TypeOK
    <3>2. run[r] = backfill[b].status /\ run[r] \in RunEnded
      BY <1>3, <2>1, <2>2, <2>4, <3>1, RunTypes DEF Rolled, BackfillsOK
    <3>3. step[r] \in [StepsOf(r) -> StepStatus]
      BY <1>3, RunTypes DEF BackfillsOK
    <3>4. Tidy(DepsOf(r), step[r], exec[r], run[r], from[r], version[r])
      BY <1>3 DEF RunsInv
    <3>5. \A k \in StepsOf(r) :
            exec[r][k] # "active" /\ (run[r] = "success" => exec[r][k] \in {"none", "success"})
      BY <3>2, <3>3, <3>4, TidyEnds
    <3>6. WorkOf(b) = {exec[r][k] : k \in StepsOf(r)} \ {"none"}
      BY <2>4, <3>1 DEF WorkOf
    <3> QED BY <2>4, <3>2, <3>5, <3>6
  <2> QED BY <2>3, <2>4
<1> QED BY <1>1, <1>2, <1>3, PTL DEF BSpec
=============================================================================
