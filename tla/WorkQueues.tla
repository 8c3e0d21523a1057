------------------------------ MODULE WorkQueues ------------------------------
(***************************************************************************)
(* The long jobs the orchestrating worker runs itself, one at a time:      *)
(* pip actions on cluster libraries, builds and validations of the runtime *)
(* image, Data Lake scans and queries.  Requests queue the rows.  The      *)
(* worker commits "running", which gives up the row lock, does the work    *)
(* outside the database and commits the outcome: a worker that stops in    *)
(* between leaves a row that nothing looks at again.                       *)
(***************************************************************************)
EXTENDS Integers, FiniteSets, Sequences, SequencesExt

CONSTANTS
  Library,      \* packages of cluster_libraries
  MaxQueued,    \* bound: rows queued, in all
  MaxStops      \* bound: workers that stop in the middle of a job

ASSUME QueuesAssumption == "no library" \notin Library /\ {MaxQueued, MaxStops} \subseteq Nat

VARIABLES
  jobs,         \* the queued rows of the five tables, in the order of their ids
  library,      \* cluster_libraries.status
  present,      \* what pip has installed
  build,        \* runtime_builds of this run: is_active, by the job that built it
  image,        \* the build the workers' tag names
  catalogScan,  \* data_lake_catalogs.last_scan_status
  activating,   \* an activation between its UPDATE and its commit, and what it saw
  runner,       \* the job the worker runs (0: none)
  broken,       \* history: libraries whose action was interrupted
  stops

queueVars == <<jobs, library, present, build, image, catalogScan, activating, runner, broken, stops>>

LibraryActions == {"install", "reinstall", "uninstall"}
Kinds == LibraryActions \union {"build", "libraries", "distributed", "apply", "scan", "query"}
Validations == {"libraries", "distributed", "apply"}
NoLibrary == "no library"
Jobs == 1..Len(jobs)
\* runtime_builds.status of a build that was activated or replaced is not its job's.
Built == {i \in Jobs : jobs[i].kind = "build" /\ jobs[i].status = "success"}
ActiveBuilds == {b \in Built : b \in build}

QueuesInit ==
  /\ jobs = <<>> /\ build = {} /\ image = 0 /\ runner = 0
  /\ library = [l \in Library |-> "absent"]
  /\ present = {} /\ broken = {}
  /\ catalogScan = "none"
  /\ activating = {}
  /\ stops = 0

Queue(kind, l, of) ==
  /\ Len(jobs) < MaxQueued
  /\ jobs' = Append(jobs, [kind |-> kind, lib |-> l, of |-> of, status |-> "queued"])

\* install_library (which creates the row), reinstall_library, uninstall_library.
RequestLibrary(l, action) ==
  /\ action = "install" \/ library[l] # "absent"
  /\ Queue(action, l, 0)
  /\ library' = IF action = "uninstall" THEN library ELSE [library EXCEPT ![l] = "queued"]
  /\ UNCHANGED <<present, build, image, catalogScan, activating, runner, broken, stops>>

\* create_build, create_validation, enqueue_query; apply_active_image needs an active build
\* and remembers it, but what is applied is whatever is active when the worker gets to it.
RequestRuntime(kind) ==
  /\ \/ kind \in {"build", "libraries", "distributed", "query"} /\ Queue(kind, NoLibrary, 0)
     \/ kind = "apply" /\ \E b \in ActiveBuilds : Queue(kind, NoLibrary, b)
  /\ UNCHANGED <<library, present, build, image, catalogScan, activating, runner, broken, stops>>

RequestScan ==
  /\ Queue("scan", NoLibrary, 0) /\ catalogScan' = "queued"
  /\ UNCHANGED <<library, present, build, image, activating, runner, broken, stops>>

\* activate_build: the UPDATE that deprecates sees the builds that are active and committed.
Activate(b) ==
  /\ b \in Built /\ \A a \in activating : a.build # b
  /\ activating' = activating \union {[build |-> b, seen |-> build \ {b}]}
  /\ UNCHANGED <<jobs, library, present, build, image, catalogScan, runner, broken, stops>>
ActivateCommits(a) ==
  /\ activating' = activating \ {a}
  /\ build' = (build \ a.seen) \union {a.build}
  /\ UNCHANGED <<jobs, library, present, image, catalogScan, runner, broken, stops>>

-----------------------------------------------------------------------------
\* The oldest queued row of a table; a build goes before the validations and a scan before
\* the queries.
Waiting(kinds) == {i \in Jobs : jobs[i].status = "queued" /\ jobs[i].kind \in kinds}
Oldest(is) == {i \in is : \A k \in is : i <= k}
\* mutant: validations are looked at only when a build was taken with them
NextJobs_BuildsOnly ==
  Oldest(Waiting(LibraryActions)) \union Oldest(Waiting({"build"}))
  \union Oldest(IF Waiting({"scan"}) # {} THEN Waiting({"scan"}) ELSE Waiting({"query"}))
NextJobs ==
  Oldest(Waiting(LibraryActions))
  \union Oldest(IF Waiting({"build"}) # {} THEN Waiting({"build"}) ELSE Waiting(Validations))
  \union Oldest(IF Waiting({"scan"}) # {} THEN Waiting({"scan"}) ELSE Waiting({"query"}))

Became(i, status) == jobs' = [jobs EXCEPT ![i].status = status]

\* The claim, and the first commit of run_action, run_build, run_validation, run_scan, run_query.
Take ==
  /\ runner = 0
  /\ \E i \in NextJobs :
       /\ runner' = i /\ Became(i, "running")
       /\ library' = IF jobs[i].kind \in {"install", "reinstall"}
                     THEN [library EXCEPT ![jobs[i].lib] = "installing"] ELSE library
       /\ catalogScan' = IF jobs[i].kind = "scan" THEN "running" ELSE catalogScan
  /\ UNCHANGED <<present, build, image, activating, broken, stops>>

\* What a job does outside the database: pip, docker tag.  (pip --user installs per replica: one environment
\* stands for the one of the replica whose rows these are.)
Effect(i, ok) ==
  /\ present' = CASE jobs[i].kind \in {"install", "reinstall"} /\ ok -> present \union {jobs[i].lib}
                  [] jobs[i].kind = "uninstall" /\ ok -> present \ {jobs[i].lib}
                  [] OTHER -> present
  /\ image' \in (IF jobs[i].kind = "apply" THEN (IF ok THEN ActiveBuilds ELSE ActiveBuilds \union {image})
                 ELSE {image})

\* mutant: a library is removed whatever pip said
Finalized_Always(status, action, ok) == IF action = "uninstall" THEN "removed" ELSE IF ok THEN "installed" ELSE "failed"
\* _finalize_library
Finalized(status, action, ok) ==
  IF ~ok THEN "failed" ELSE IF action = "uninstall" THEN "removed" ELSE "installed"

Finish ==
  /\ runner # 0 /\ runner' = 0
  /\ \E ok \in BOOLEAN :
       /\ jobs[runner].kind = "apply" /\ ActiveBuilds = {} => ~ok
       /\ Effect(runner, ok)
       /\ Became(runner, IF ok THEN "success" ELSE "failed")
       /\ library' = IF jobs[runner].kind \in LibraryActions
                     THEN [library EXCEPT ![jobs[runner].lib] = Finalized(@, jobs[runner].kind, ok)]
                     ELSE library
       /\ catalogScan' = IF jobs[runner].kind = "scan" THEN IF ok THEN "success" ELSE "failed" ELSE catalogScan
  /\ UNCHANGED <<build, activating, broken, stops>>

\* The worker stops before it commits the outcome.
Stop ==
  /\ runner # 0 /\ stops < MaxStops /\ stops' = stops + 1
  /\ \E ok \in BOOLEAN : (jobs[runner].kind = "apply" /\ ActiveBuilds = {} => ~ok) /\ Effect(runner, ok)
  /\ runner' = 0
  /\ broken' = IF jobs[runner].kind \in LibraryActions THEN broken \union {jobs[runner].lib} ELSE broken
  /\ UNCHANGED <<jobs, library, build, catalogScan, activating>>

QueuesNext ==
  \/ \E l \in Library, action \in LibraryActions : RequestLibrary(l, action)
  \/ \E kind \in Kinds : RequestRuntime(kind)
  \/ RequestScan
  \/ \E b \in Built : Activate(b)
  \/ \E a \in activating : ActivateCommits(a)
  \/ Take \/ Finish \/ Stop

QueuesFairness == WF_queueVars(Take) /\ WF_queueVars(Finish)
QueuesSpec == QueuesInit /\ [][QueuesNext]_queueVars

-----------------------------------------------------------------------------
QueuesTypeOK ==
  /\ runner \in 0..Len(jobs)
  /\ build \subseteq Built
  /\ image = 0 \/ image \in Built
  /\ \A l \in Library : library[l] \in {"absent", "queued", "installing", "installed", "failed", "removed"}

Running(l) == runner # 0 /\ jobs[runner].lib = l
\* A library that is listed as installed is there, and one listed as removed is not, however
\* its actions were queued behind each other, unless one of them runs now or was interrupted.
LibraryTellsTheTruth ==
  \A l \in Library \ broken : ~Running(l) =>
    /\ library[l] = "installed" => l \in present
    /\ library[l] = "removed" => l \notin present

\* Every queued row is taken, and ends or is left behind by a worker that stopped.
QueuesDrain ==
  \A i \in 1..MaxQueued :
    (i \in Jobs /\ jobs[i].status = "queued") ~> (i \in Jobs /\ jobs[i].status # "queued" /\ runner # i)
=============================================================================
