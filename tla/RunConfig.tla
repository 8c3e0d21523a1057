------------------------------ MODULE RunConfig ------------------------------
(***************************************************************************)
(* What a run of a job is given.  Before it starts the job the worker      *)
(* looks up the connections its arguments name, its destination, its       *)
(* control and the destinations linked to the controls it selects, one     *)
(* after the other, and each writes its part of the environment of the     *)
(* process over what is there.  Requests change the rows in between.       *)
(*                                                                         *)
(* Of the environment: which connection the address and the credentials of *)
(* a side are of, the type it is said to have, and who names the table or  *)
(* the path.                                                               *)
(***************************************************************************)
EXTENDS Registry, Sequences

CONSTANT Jobs        \* the jobs: what their arguments (_extract_refs) and columns refer to

VARIABLE run         \* the run under way

configVars == <<registryVars, run>>

Side == {"source", "target"}
\* SOURCE_*, TARGET_*: `db' is of HOST, USER, PASSWORD, `s3' of S3_*, `table' of SCHEMA, TABLE, `path' of
\* BUCKET, PATH.
NoSide == [type |-> None, db |-> None, s3 |-> None, table |-> None, path |-> None]
\* AWS_*: one of each for the process.  `stores' is history: those that wrote to them.
NoEnv == [source |-> NoSide, target |-> NoSide, keys |-> None, endpoint |-> None, stores |-> {}, config |-> {}]
NoJob == [args |-> <<>>, dest |-> None, control |-> None, selected |-> {}]
NoRun == [at |-> "idle", job |-> NoJob, env |-> NoEnv, by |-> None, declared |-> None, dest |-> None, control |-> None]

ASSUME JobsAssumption ==
  Jobs \subseteq [args : Seq([side : Side, name : Name]), dest : Dest \union {None}, control : Control \union {None},
                  selected : SUBSET Control]
ConfigInit == RegistryInit /\ run = NoRun

-----------------------------------------------------------------------------
\* _inject_s3: the keys are written over those that are there, the endpoint only if there is none
\* (every store here has keys and an endpoint of its own).
WithAws(env, k) ==
  [env EXCEPT !.keys = k, !.endpoint = IF @ = None THEN k ELSE @, !.stores = @ \union {k}]
\* _inject_s3, _inject_db_conn
Inject(env, side, k) ==
  IF conns[k].type = "s3" THEN WithAws([env EXCEPT ![side].type = "s3", ![side].s3 = k], k)
  ELSE [env EXCEPT ![side].type = conns[k].type, ![side].db = k]
\* target_env: the keys of the type of the target, beside those of the other type.
NamedBy(env, type, who) ==
  IF type = "s3" THEN [env EXCEPT !.target.type = type, !.target.path = who]
  ELSE [env EXCEPT !.target.type = type, !.target.table = who]

Reached(step, env) == run' = [run EXCEPT !.at = step, !.env = env]
Refused == run' = [run EXCEPT !.at = "refused"]

Begin(j) == run = NoRun /\ run' = [NoRun EXCEPT !.at = "arguments", !.job = j]

\* resolve_connections: get_connection_by_ref, active, the test.
Named(n) == CHOOSE k \in Conn : ConnThere(k) /\ conns[k].name = n
Usable(n) == \E k \in Conn : ConnThere(k) /\ conns[k].name = n /\ conns[k].active
\* The environment with what each argument names in turn.
WithArguments(env, refs) ==
  LET added[i \in 0..Len(refs)] ==
        IF i = 0 THEN env ELSE Inject(added[i - 1], refs[i].side, Named(refs[i].name))
  IN added[Len(refs)]
ResolveArguments ==
  LET refs == run.job.args IN
  /\ run.at = "arguments"
  /\ \/ /\ \A i \in DOMAIN refs : Usable(refs[i].name)
        /\ Reached("destination", WithArguments(run.env, refs))
     \/ refs # <<>> /\ Refused        \* a connection is not there or inactive, or does not answer

\* resolve_destination: a job that has one runs with it or not at all.
DestUsable(d) == DestThere(d) /\ ConnThere(dests[d].conn) /\ conns[dests[d].conn].active
ResolveDestination ==
  LET d == run.job.dest IN
  /\ run.at = "destination"
  /\ \/ d = None /\ Reached("control", run.env)
     \/ d # None /\ ~DestUsable(d) /\ Refused
     \/ /\ d # None /\ DestUsable(d)
        /\ run' = [run EXCEPT !.at = "control", !.by = "destination", !.declared = dests[d].conn, !.dest = d,
                              !.env = NamedBy(Inject(run.env, "target", dests[d].conn), dests[d].type, d)]

\* resolve_target: the destination of the control, if it is not deleted, else the columns of the control.
\* mutant: the connection is always that of the columns
TargetConn_OfColumns(c) == controls[c].target
TargetConn(c) == IF DestThere(controls[c].dest) THEN dests[controls[c].dest].conn ELSE controls[c].target
TargetType(c) ==
  IF DestThere(controls[c].dest) THEN dests[controls[c].dest].type
  ELSE IF ConnThere(controls[c].target) THEN conns[controls[c].target].type
  ELSE IF controls[c].bucket THEN "s3" ELSE "postgres"
Declares(c) == controls[c].source # None \/ TargetConn(c) # None
\* What is not there is left out, and what an earlier step wrote stays.
InjectThere(env, side, k) == IF ConnThere(k) THEN Inject(env, side, k) ELSE env
\* source_env: the type of the connection, or what the column origem says.
FromSource(env, k) ==
  [InjectThere(env, "source", k) EXCEPT !.source.type = IF ConnThere(k) THEN conns[k].type ELSE None]

\* resolve_control: over the destination of the job.  The row of the execution keeps that one.
ResolveControl ==
  LET c == run.job.control IN
  /\ run.at = "control"
  /\ IF c = None \/ (c # None /\ (~ControlThere(c) \/ ~Declares(c))) THEN Reached("links", run.env)
     ELSE run' = [run EXCEPT !.at = "links", !.by = "control", !.declared = TargetConn(c), !.control = c,
                    !.dest = IF @ = None /\ DestThere(controls[c].dest) THEN controls[c].dest ELSE @,
                    !.env = NamedBy(InjectThere(FromSource(run.env, controls[c].source), "target", TargetConn(c)),
                                    TargetType(c), c)]

\* resolve_control_destinations: the active links whose destination has a row, deleted or not.
LinkedRows(c) == {l \in links : l.control = c /\ l.active /\ dests[l.dest].state # "unused"}
\* build_controlled_config: the controls that have links and a source that is there.
Selected == {c \in run.job.selected : ControlThere(c) /\ LinkedRows(c) # {} /\ ConnThere(controls[c].source)}
Entries == UNION {{[control |-> c, dest |-> l.dest, conn |-> dests[l.dest].conn] : l \in LinkedRows(c)} : c \in Selected}
\* Their connections, those of S3 in some order.
Stores == {k \in {controls[c].source : c \in Selected} \union {e.conn : e \in Entries} :
             ConnThere(k) /\ conns[k].type = "s3"}
ResolveLinks ==
  /\ run.at = "links"
  /\ \/ Selected = {} /\ Reached("started", run.env)
     \/ /\ Selected # {} /\ Stores = {}
        /\ run' = [run EXCEPT !.at = "started", !.env.config = Entries]
     \/ \E first, last \in Stores :
          /\ Selected # {} /\ (first = last => Stores = {first})
          /\ run' = [run EXCEPT !.at = "started", !.env = [WithAws(WithAws(@, first), last) EXCEPT !.config = Entries]]

-----------------------------------------------------------------------------
RunStep == (\E j \in Jobs : Begin(j)) \/ ResolveArguments \/ ResolveDestination \/ ResolveControl \/ ResolveLinks
ConfigNext == (RegistryNext /\ UNCHANGED run) \/ (RunStep /\ UNCHANGED registryVars)
RunConfigSpec == ConfigInit /\ [][ConfigNext]_configVars

-----------------------------------------------------------------------------
ConfigTypeOK ==
  /\ RegistryTypeOK
  /\ run.at \in {"idle", "arguments", "destination", "control", "links", "refused", "started"}
  /\ run.job \in Jobs \union {NoJob} /\ run.env.config \subseteq [control : Control, dest : Dest, conn : Conn]

\* A run whose target is declared, by the destination of the job or by its control, is given the
\* connection declared under the type it is told: the address and the credentials of a database, the
\* bucket of a store, and its keys and endpoint too when the run is given no other store.  What an
\* earlier step wrote for another target does not show through, unless the connection is gone or has
\* changed its type, or the control names no connection: then the job writes where its arguments said.
TargetIsWhole ==
  LET t == run.env.target
      k == run.declared
  IN run.at = "started" /\ run.by # None =>
       \/ k = None \/ conns[k].moved
       \/ t.type # "s3" /\ t.db = k
       \/ t.type = "s3" /\ t.s3 = k /\ (run.env.stores = {k} => run.env.keys = k /\ run.env.endpoint = k)

\* What resolve_destination says it injects, the credentials of the connection, and with them the
\* endpoint.  Not so when another store wrote to the one set of keys before or after.
TargetHasItsKeys ==
  LET t == run.env.target
      k == run.declared
  IN run.at = "started" /\ run.by # None /\ t.type = "s3" =>
       \/ k = None \/ conns[k].moved
       \/ run.env.keys = k /\ run.env.endpoint = k
=============================================================================
