------------------------------- MODULE Runtime -------------------------------
(***************************************************************************)
(* The image the Spark workers run: a manifest of libraries, builds of an  *)
(* image from it, the activation of one, and the validations, of which     *)
(* that of kind "apply" first gives the containers of the cluster the      *)
(* active image.  Two workers take builds and validations from the tables. *)
(*                                                                         *)
(* The command line of Docker, the master and the job that imports the     *)
(* libraries answer as they do: any of them may fail.                      *)
(***************************************************************************)
EXTENDS Naturals, FiniteSets

CONSTANTS
  Lib, Build, Check,     \* libraries, and the rows there may be of builds and validations, by id
  Container,             \* runtime_spark_worker_containers_list, by its order: as many as spark_expected_workers
  Base, Gone,            \* the image before any build, and no container at all
  MaxManifest,           \* bound: edits of the manifest
  MaxActivations         \* bound: requests to activate a build

VARIABLES
  manifest,              \* the active libraries
  entries,               \* edits of the manifest so far
  builds, checks,
  containers,            \* the image each container was made of, or that it is gone
  tagged,                \* the image that runtime_worker_image_tag names
  activations,           \* the requests to activate a build that are not committed
  switches               \* those so far

runtimeVars == <<manifest, entries, builds, checks, containers, tagged, activations, switches>>

NoBuild == [state |-> "unused", libs |-> {}, active |-> FALSE]
\* `named': runtime_build_id; `took': the build the worker found active.  History: whether another build was
\* active at the request or any was activated since, whether the tag was given to another build while this
\* check relied on it, and the containers that were not inspected and so kept what they ran.
NoCheck == [state |-> "unused", kind |-> "libraries", named |-> Base, took |-> Base, libs |-> {}, todo |-> {},
            since |-> FALSE, late |-> FALSE, kept |-> {}]

RuntimeInit ==
  /\ manifest = {} /\ entries = 0
  /\ builds = [b \in Build |-> NoBuild] /\ checks = [c \in Check |-> NoCheck]
  /\ containers = [k \in Container |-> Base] /\ tagged = Base /\ activations = {} /\ switches = 0

\* What an image can import.
Imports(image) == IF image \in Build THEN builds[image].libs ELSE {}
Active == {b \in Build : builds[b].active}
Becomes(c, state) == checks' = [checks EXCEPT ![c].state = state]

-----------------------------------------------------------------------------
\* add_library, update_library, remove_library
SetLibrary(l) ==
  /\ entries < MaxManifest /\ entries' = entries + 1
  /\ manifest' = IF l \in manifest THEN manifest \ {l} ELSE manifest \union {l}
  /\ UNCHANGED <<builds, checks, containers, tagged, activations, switches>>

\* create_build: of the manifest as it is then (generate_requirements).
CreateBuild(b) ==
  /\ builds[b].state = "unused" /\ \A x \in Build : x < b => builds[x].state # "unused"
  /\ builds' = [builds EXCEPT ![b] = [state |-> "queued", libs |-> manifest, active |-> FALSE]]
  /\ UNCHANGED <<manifest, entries, checks, containers, tagged, activations, switches>>
\* run_build: claimed, and later what `docker build' said.
RunBuild(b) ==
  /\ \/ builds[b].state = "queued" /\ builds' = [builds EXCEPT ![b].state = "building"]
     \/ builds[b].state = "building" /\ \E r \in {"success", "failed"} : builds' = [builds EXCEPT ![b].state = r]
  /\ UNCHANGED <<manifest, entries, checks, containers, tagged, activations, switches>>
\* activate: of a build that succeeded once ...
Activatable(b) == builds[b].state \in {"success", "active", "deprecated"}
Activate(b) ==
  /\ switches < MaxActivations /\ switches' = switches + 1
  /\ Activatable(b) /\ \A a \in activations : a.build # b
  /\ activations' = activations \union {[build |-> b, was |-> builds[b].active, step |-> "read", seen |-> {}]}
  /\ UNCHANGED <<manifest, entries, builds, checks, containers, tagged>>
\* activate_build: the UPDATE finds the others that are active and committed ...
Deprecate(a) ==
  /\ a.step = "read"
  /\ activations' = (activations \ {a}) \union {[a EXCEPT !.step = "updated", !.seen = Active \ {a.build}]}
  /\ UNCHANGED <<manifest, entries, builds, checks, containers, tagged, switches>>
\* ... and the commit writes those that still are, and the build itself if it was read as inactive.
Activated(a, b) ==
  CASE b = a.build /\ ~a.was -> [builds[b] EXCEPT !.state = "active", !.active = TRUE]
    [] b \in a.seen /\ builds[b].active -> [builds[b] EXCEPT !.state = "deprecated", !.active = FALSE]
    [] OTHER -> builds[b]
ActivateCommits(a) ==
  /\ a.step = "updated" /\ activations' = activations \ {a}
  /\ builds' = [b \in Build |-> Activated(a, b)]
  /\ checks' = [c \in Check |-> [checks[c] EXCEPT !.since = TRUE]]
  /\ UNCHANGED <<manifest, entries, containers, tagged, switches>>

-----------------------------------------------------------------------------
\* create_validation, validate_libraries of a cluster: of the libraries in the manifest.
OfLibraries == [NoCheck EXCEPT !.state = "queued", !.libs = manifest]
\* apply_active_image of the router: it names a build it read as active, which it may no longer be.
ToApply(b) == [OfLibraries EXCEPT !.kind = "apply", !.named = b, !.since = Active # {b}]
Request(c) ==
  /\ checks[c].state = "unused" /\ \A x \in Check : x < c => checks[x].state # "unused"
  /\ \/ checks' = [checks EXCEPT ![c] = OfLibraries]
     \/ \E b \in Build :
          builds[b].state \in {"active", "deprecated"} /\ checks' = [checks EXCEPT ![c] = ToApply(b)]
  /\ UNCHANGED <<manifest, entries, builds, containers, tagged, activations, switches>>

\* mutant: what apply_active_image returned is not looked at
AfterFailure_Ignored == "checking"
AfterFailure == "failed"
\* run_validation, and apply_active_image: a build that is active now, whichever comes first.
Claim(c) ==
  /\ checks[c].state = "queued"
  /\ \/ checks[c].kind = "libraries" /\ Becomes(c, "checking")
     \/ checks[c].kind = "apply"
          /\ \E b \in Active : checks' = [checks EXCEPT ![c].state = "tagging", ![c].took = b]
     \* None is active, or no docker.
     \/ checks[c].kind = "apply" /\ Becomes(c, AfterFailure)
  /\ UNCHANGED <<manifest, entries, builds, containers, tagged, activations, switches>>
\* `docker tag', of what was active when it was read; or it refuses.
InHand(row) == row.state \in {"applying", "checking"}
Displaced(row, b) == [row EXCEPT !.late = @ \/ (InHand(row) /\ row.named # b)]
Retag(c) ==
  /\ checks[c].state = "tagging"
  /\ \/ /\ tagged' = checks[c].took
        /\ checks' = [d \in Check |-> IF d = c THEN [checks[c] EXCEPT !.state = "applying", !.todo = Container]
                                      ELSE Displaced(checks[d], checks[c].took)]
     \/ Becomes(c, AfterFailure) /\ tagged' = tagged
  /\ UNCHANGED <<manifest, entries, builds, containers, activations, switches>>
\* _recreate_worker, of each in turn: inspected, removed, and run as what the tag names at that time.  One
\* that is gone cannot be inspected, and stays gone.
RecreateWorker(c, k) ==
  /\ checks[c].state = "applying" /\ k \in checks[c].todo /\ \A x \in checks[c].todo : k <= x
  /\ \/ /\ checks' = [checks EXCEPT ![c].todo = @ \ {k}, ![c].kept = @ \union {k}]
        /\ containers' = containers
     \/ /\ containers[k] # Gone
        /\ checks' = [checks EXCEPT ![c].todo = @ \ {k}]
        /\ \E image \in {tagged, Gone} : containers' = [containers EXCEPT ![k] = image]
  /\ UNCHANGED <<manifest, entries, builds, tagged, activations, switches>>
\* An empty list is filled from the manifest after the apply.
Filled(c) == IF checks[c].libs = {} THEN manifest ELSE checks[c].libs
\* _wait_for_workers: the master may not have them in time, and still counts those it lost lately.
Wait(c) ==
  /\ checks[c].state = "applying" /\ checks[c].todo = {}
  /\ \E next \in {"checking", AfterFailure} : checks' = [checks EXCEPT ![c].state = next, ![c].libs = Filled(c)]
  /\ UNCHANGED <<manifest, entries, builds, containers, tagged, activations, switches>>
\* The job, on every host that is up: all of them, and some library, each of which is there.
Sound(c) ==
  /\ checks[c].libs # {}
  /\ \A k \in Container : containers[k] # Gone /\ checks[c].libs \subseteq Imports(containers[k])
Submit(c) ==
  /\ checks[c].state = "checking"
  /\ \/ Sound(c) /\ Becomes(c, "success")
     \/ Becomes(c, "failed")             \* or no result: the driver or the container it is in
  /\ UNCHANGED <<manifest, entries, builds, containers, tagged, activations, switches>>

RuntimeNext ==
  \/ \E l \in Lib : SetLibrary(l)
  \/ \E b \in Build : CreateBuild(b) \/ RunBuild(b) \/ Activate(b)
  \/ \E a \in activations : Deprecate(a) \/ ActivateCommits(a)
  \/ \E c \in Check : Request(c) \/ Claim(c) \/ Retag(c) \/ Wait(c) \/ Submit(c) \/ \E k \in Container : RecreateWorker(c, k)

RuntimeSpec == RuntimeInit /\ [][RuntimeNext]_runtimeVars

-----------------------------------------------------------------------------
RuntimeTypeOK ==
  /\ manifest \subseteq Lib /\ entries \in 0..MaxManifest
  /\ \A b \in Build :
       builds[b].state \in {"unused", "queued", "building", "success", "failed", "active", "deprecated"}
  /\ \A c \in Check : checks[c].state \in {"unused", "queued", "tagging", "applying", "checking", "success", "failed"}
  /\ containers \in [Container -> Build \union {Base, Gone}] /\ tagged \in Build \union {Base}

ApplyEnds(c) == checks[c].state # "success" /\ checks'[c].state = "success" /\ checks[c].kind = "apply"

\* An apply that ends in success vouches for the build it names: when it ends every container runs that
\* build.  Unless another build was active when it was asked for or any was activated since, unless a worker
\* that had read another build before tagged it while this apply relied on the tag, and unless a container
\* could not be inspected and kept its image, which has the libraries too.
ApplyVouches ==
  [][\A c \in Check :
       ApplyEnds(c) /\ ~checks[c].since /\ ~checks[c].late /\ checks[c].kept = {} =>
         \A k \in Container : containers[k] = checks[c].named]_runtimeVars

\* What apply_active_image of the router says: the workers run the active image once an apply asked for when
\* it was the only one has ended in success and nothing was activated in between.  It fails: a worker that
\* read the build active before may tag it later.
ActiveIsApplied ==
  [][\A c \in Check :
       ApplyEnds(c) /\ ~checks[c].since /\ checks[c].kept = {} =>
         \A k \in Container : containers[k] = checks[c].named]_runtimeVars

\* What activate_build means by deprecating the others: one image is the active one.  It fails: neither of
\* two activations sees what the other has not committed.
OneIsActive == \A x, y \in Active : x = y
=============================================================================
