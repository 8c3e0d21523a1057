------------------------------- MODULE JobCode -------------------------------
(***************************************************************************)
(* Jobs and the code they run.  A job is created with a folder of its own  *)
(* under a versioned directory, or over a script that is there; its files  *)
(* are edited through the API; deleting it archives the folder, removes it *)
(* and marks the row.  Nothing locks a file: each request looks, then      *)
(* acts, and others may act in between.                                    *)
(*                                                                         *)
(* Of a folder there are the script and another file, to and from whose    *)
(* name it can be renamed; of a file it matters whether it was written     *)
(* since the last copy was made of it.                                     *)
(***************************************************************************)
EXTENDS Integers, FiniteSets

CONSTANTS
  Client,      \* requests that may be under way at once
  Job,         \* rows of job_definitions that may be created
  NameOf,      \* the name each asks for: <<slug, spelling>>, as names may share a slug
  MaxCalls     \* bound: requests

ASSUME CallsAssumption == MaxCalls \in Nat

VARIABLES
  job,         \* job_definitions: state, folder of script_path
  dirs,        \* the folders that are there
  code,        \* what each file contains: nothing, something new, something with a copy elsewhere
  call, calls, \* the requests under way, and how many there were
  copies       \* history: "kept" as long as nothing without a copy was overwritten or removed, then
               \* "lost"; "excused" from the first overlap on a folder or backup that went wrong

codeVars == <<job, dirs, code, call, calls, copies>>

\* The folder that the slug of a name gives, and the one with the id of the job behind it.
Slug(n) == <<"slug", n[1]>>
WithId(j) == <<"slug and id", j>>
Folder == {Slug(NameOf[j]) : j \in Job} \union {WithId(j) : j \in Job}
NoFolder == <<"none", 0>>
Script(f) == <<f, "main">>
Files(f) == {<<f, "main">>, <<f, "other">>}
Renamed(x) == <<x[1], IF x[2] = "main" THEN "other" ELSE "main">>
NoCall == [op |-> "idle", step |-> "done", j |-> 0, x |-> Script(NoFolder)]
Live(j) == job[j].state = "live"
Rows == {j \in Job : job[j].state # "none"}
On(f) == {d \in Client : call[d].op # "idle" /\ call[d].x[1] = f}

CodeInit ==
  /\ job = [j \in Job |-> [state |-> "none", folder |-> NoFolder]]
  /\ dirs = {} /\ code = [x \in UNION {Files(f) : f \in Folder} |-> "nothing"]
  /\ call = [d \in Client |-> NoCall] /\ calls = 0
  /\ copies = "kept"

Enter(d, op, step, j, x) ==
  /\ call[d] = NoCall /\ calls < MaxCalls /\ calls' = calls + 1
  /\ call' = [call EXCEPT ![d] = [op |-> op, step |-> step, j |-> j, x |-> x]]
  /\ copies' = IF On(x[1]) # {} /\ copies = "kept" THEN "excused" ELSE copies
Reach(d, step) == call' = [call EXCEPT ![d].step = step] /\ calls' = calls
Leave(d) == call' = [call EXCEPT ![d] = NoCall] /\ calls' = calls
There(x) == code[x] # "nothing"
\* The files take other contents: none that has no copy may go that way.
Put(contents) ==
  /\ code' = [x \in DOMAIN code |-> IF x \in DOMAIN contents THEN contents[x] ELSE code[x]]
  /\ copies' = IF copies = "kept" /\ \E x \in DOMAIN contents : code[x] = "new" THEN "lost" ELSE copies
One(x, content) == [y \in {x} |-> content]

-----------------------------------------------------------------------------
\* create_job: the name must not be a live job's; the row is inserted, and the constraint of the
\* table looks at every row (the id is the next one of the sequence).
NameTaken(j) == \E k \in Job : Live(k) /\ NameOf[k] = NameOf[j]
RowExists(j) == \E k \in Rows : NameOf[k] = NameOf[j]
\* mutant: the folder of the slug is taken whether it is there or not
ProvisionAt_Slug(j) == Slug(NameOf[j])
\* provision_job_script looks whether the folder of the slug is there ...
ProvisionAt(j) == IF Slug(NameOf[j]) \in dirs THEN WithId(j) ELSE Slug(NameOf[j])
Insertable(j) ==
  job[j].state = "none" /\ ~RowExists(j)
  /\ \A e \in Client : ~(call[e].op = "create" /\ NameOf[call[e].j] = NameOf[j])
CreateJob(d, j) ==
  /\ Insertable(j)
  /\ Enter(d, "create", "provision", j, Script(ProvisionAt(j)))
  /\ UNCHANGED <<job, dirs, code>>
\* ... and makes it, with a starter unless a script is there by now; the row is committed.
Provision(d) ==
  /\ call[d].op = "create"
  /\ IF There(call[d].x) THEN UNCHANGED <<code, copies>> ELSE Put(One(call[d].x, "new"))
  /\ dirs' = dirs \union {call[d].x[1]}
  /\ job' = [job EXCEPT ![call[d].j] = [state |-> "live", folder |-> call[d].x[1]]]
  /\ Leave(d)
\* An explicit script_path, of a new job or of an update: it must be under an allowed directory.
SetScriptPath(j, f) ==
  /\ Live(j) \/ Insertable(j)
  /\ f \in dirs /\ \E k \in Job \ {j} : job[k].folder = f     \* (the case that matters: the folder of another job)
  /\ job' = [job EXCEPT ![j].state = "live", ![j].folder = f]
  /\ UNCHANGED <<call, calls, dirs, code, copies>>

-----------------------------------------------------------------------------
\* write_file, write_job_code, delete_file, rename: the file must be there and, when the client sent
\* the time it read it at, unchanged, and the new name free; then a backup, then the write, the removal
\* or the move.  workspace_router refuses a deleted job; PUT /code does not look.
Edit(d, j, op, x) ==
  /\ j \in Rows /\ x \in Files(job[j].folder) /\ There(x)
  /\ Live(j) \/ (op = "save" /\ x = Script(job[j].folder))
  /\ op = "rename" => ~There(Renamed(x))
  /\ Enter(d, op, "backup", j, x)
  /\ UNCHANGED <<job, dirs, code>>

\* mutant: the content is backed up after it was overwritten
BackedUp_Late(x) == code[x]
BackedUp(x) == IF There(x) THEN "copied" ELSE code[x]
Backup(d) ==
  /\ call[d].op \in {"save", "remove", "rename"} /\ call[d].step = "backup"
  /\ \/ code' = [code EXCEPT ![call[d].x] = BackedUp(call[d].x)] /\ UNCHANGED copies
     \* the directory of the backups is not writable: the edit goes on without one
     \/ copies' = "excused" /\ UNCHANGED code
     \* a backup of this file made in the same second has the same name, and is replaced
     \/ copies' = "excused" /\ code' = [code EXCEPT ![call[d].x] = BackedUp(call[d].x)]
  /\ Reach(d, "write")
  /\ UNCHANGED <<job, dirs>>
\* (opening a file to write it fails only when its folder is gone)
SaveWrites(x) == x[1] \in dirs /\ Put(One(x, "new"))
RemoveWrites(x) == There(x) /\ Put(One(x, "nothing"))
\* os.rename writes over what got the new name in between, and moves what was not copied.
RenameWrites(x) ==
  /\ There(x)
  /\ code' = [code EXCEPT ![x] = "nothing", ![Renamed(x)] = code[x]]
  /\ copies' = IF code[Renamed(x)] = "new" /\ copies = "kept" THEN "lost" ELSE copies
EditWrites(d) ==
  LET x == call[d].x IN
  /\ call[d].step = "write"
  /\ \/ call[d].op = "save" /\ SaveWrites(x)
     \/ call[d].op = "remove" /\ RemoveWrites(x)
     \/ call[d].op = "rename" /\ RenameWrites(x)
     \/ (IF call[d].op = "save" THEN x[1] \notin dirs ELSE ~There(x)) /\ UNCHANGED <<code, copies>>
  /\ Leave(d)
  /\ UNCHANGED <<job, dirs>>

\* create_file, when there is none of the name; its folder is made if it is gone.
CreateFile(d, j, x) ==
  /\ Live(j) /\ x \in Files(job[j].folder) /\ ~There(x)
  /\ Enter(d, "create file", "write file", j, x)
  /\ UNCHANGED <<job, dirs, code>>
FileCreated(d) ==
  /\ call[d].step = "write file" /\ Put(One(call[d].x, "new")) /\ dirs' = dirs \union {call[d].x[1]} /\ Leave(d)
  /\ UNCHANGED job

-----------------------------------------------------------------------------
\* delete_job: when nothing blocks it (an active execution, a schedule, a pipeline), the workspace
\* is copied and verified ...
DeleteJob(d, j) ==
  /\ Live(j)
  /\ Enter(d, "delete", "archive", j, Script(job[j].folder))
  /\ UNCHANGED <<job, dirs, code>>
\* mutant: the copy is not made
Archived_None(f) == code
\* (a folder that is not there is skipped)
Archived(f) == [x \in DOMAIN code |-> IF x \in Files(f) /\ There(x) THEN "copied" ELSE code[x]]
Archive(d) ==
  /\ call[d].step = "archive"
  /\ \/ code' = Archived(call[d].x[1]) /\ Reach(d, "delete")
     \/ UNCHANGED code /\ Leave(d)              \* ArchiveError: the job stays
  /\ UNCHANGED <<job, dirs, copies>>
\* ... the original is removed, if it can be, and the row is marked.
DeleteCommits(d) ==
  /\ call[d].step = "delete"
  /\ \/ Put([x \in Files(call[d].x[1]) |-> "nothing"]) /\ dirs' = dirs \ {call[d].x[1]}
     \/ UNCHANGED <<dirs, code, copies>>
  /\ job' = [job EXCEPT ![call[d].j].state = "deleted"]
  /\ Leave(d)

CodeNext ==
  \/ \E j \in Job, f \in Folder : SetScriptPath(j, f)
  \/ \E d \in Client :
       \/ \E j \in Job :
            \/ CreateJob(d, j) \/ DeleteJob(d, j)
            \/ \E x \in DOMAIN code : CreateFile(d, j, x) \/ \E op \in {"save", "remove", "rename"} : Edit(d, j, op, x)
       \/ Provision(d) \/ Backup(d) \/ EditWrites(d) \/ FileCreated(d) \/ Archive(d) \/ DeleteCommits(d)
CodeSpec == CodeInit /\ [][CodeNext]_codeVars
-----------------------------------------------------------------------------
CodeTypeOK ==
  /\ \A j \in Job : job[j].state \in {"none", "live", "deleted"} /\ job[j].folder \in Folder \union {NoFolder}
  /\ calls \in 0..MaxCalls /\ dirs \subseteq Folder /\ \A x \in DOMAIN code : code[x] \in {"nothing", "new", "copied"}
  /\ \A d \in Client : call[d].step \in {"done", "provision", "backup", "write", "write file", "archive", "delete"}

\* Nothing that was in a workspace is gone without a copy in a backup or in the archive, unless two
\* requests overlapped on the folder or a backup was missed or replaced.
CodeIsKept == copies # "lost"
=============================================================================
