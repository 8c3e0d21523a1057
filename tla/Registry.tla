------------------------------ MODULE Registry ------------------------------
(***************************************************************************)
(* Where data comes from and goes to: connections, destinations over a     *)
(* connection, the controls of the loads, and the links from a control to  *)
(* the destinations it writes.  Each row names others by id; no foreign    *)
(* key holds them together, and the handlers look at some of them.         *)
(*                                                                         *)
(* Of the columns of a row those matter that another row or a run depends  *)
(* on.  Ids are of a sequence: one that was deleted does not come back.    *)
(*                                                                         *)
(* No handler locks what it reads.  What a request about a destination     *)
(* decides it decides when it has read the row and its connection; it      *)
(* commits later, the columns it changed and no others.  The requests      *)
(* about the other rows compare nothing that they read but names and links *)
(* the tables keep unique, and write each column whatever the others are:  *)
(* two that overlap leave what one after the other leaves, and one step is *)
(* enough for each.                                                        *)
(***************************************************************************)
EXTENDS Naturals, FiniteSets

CONSTANTS
  Conn, Dest, Control,   \* the ids there may be of each
  Name,                  \* names of connections: arguments of jobs refer to them
  SetUp,                 \* the rows an instance starts with
  MaxChanges             \* bound: requests

VARIABLES
  conns, dests, controls, links,   \* the rows
  waiting,                           \* requests about destinations between what they read and their commit
  changes                          \* requests so far

rowVars == <<conns, dests, controls, links>>
registryVars == <<rowVars, waiting, changes>>

None == "none"
Type == {"postgres", "mysql", "s3"}    \* the other databases are as mysql here
Role == {"primary", "datalake_copy"}
Tested == {"not_tested", "success", "failed"}
\* `moved' is history: the row is not what those who refer to it saw.
ConnRow == [state : {"unused", "there", "gone"}, name : Name, type : Type, active : BOOLEAN, tested : Tested,
            moved : BOOLEAN]
\* `named': it says the table, or the path in the bucket; `template': it is for any.
DestRow == [state : {"unused", "there", "deleted"}, conn : Conn, type : {"postgres", "s3"},
            named : BOOLEAN, template : BOOLEAN, active : BOOLEAN, tested : Tested]
\* The columns there are to write; the type of a destination is not one that a request changes.
Written == {"state", "conn", "named", "template", "active", "tested"}
\* A request: the row as it is to be, and the columns of it that the commit writes.
DestAsked == [dest : Dest, new : BOOLEAN, row : DestRow, columns : SUBSET Written]
\* `bucket': the target_* columns name a bucket.
ControlRow == [state : {"unused", "there", "gone"}, source : Conn \union {None}, target : Conn \union {None},
               dest : Dest \union {None}, bucket : BOOLEAN, active : BOOLEAN]
Link == [control : Control, dest : Dest, role : Role, active : BOOLEAN]

ConnThere(k) == k # None /\ conns[k].state = "there"
DestThere(d) == d # None /\ dests[d].state = "there"
ControlThere(c) == controls[c].state = "there"
NameFree(n, k) == \A o \in Conn \ {k} : ConnThere(o) => conns[o].name # n

\* What the handlers can have made of the rows before: each destination there is was valid, and what a
\* control names was there when it was chosen.
ASSUME SetUpAssumption ==
  /\ SetUp.conns \in [Conn -> ConnRow] /\ SetUp.dests \in [Dest -> DestRow]
  /\ SetUp.controls \in [Control -> ControlRow] /\ SetUp.links \subseteq Link
  /\ \A k \in Conn : /\ SetUp.conns[k].state = "unused" => ~SetUp.conns[k].moved
                     /\ SetUp.conns[k].state = "gone" => SetUp.conns[k].moved
  /\ \A c \in Control : LET k == SetUp.controls[c].target
                        IN SetUp.controls[c].state = "there" => k = None \/ SetUp.conns[k].state # "unused"
  /\ \A d \in Dest : SetUp.dests[d].state = "there" =>
       LET k == SetUp.conns[SetUp.dests[d].conn]
       IN k.state = "there" /\ k.type = SetUp.dests[d].type /\ (SetUp.dests[d].named \/ SetUp.dests[d].template)
  /\ MaxChanges \in Nat
RegistryInit ==
  /\ conns = SetUp.conns /\ dests = SetUp.dests /\ controls = SetUp.controls /\ links = SetUp.links
  /\ waiting = {} /\ changes = 0

Change == changes < MaxChanges /\ changes' = changes + 1

-----------------------------------------------------------------------------
\* create_connection; the name is checked and unique in the table.
CreateConn(k, n, t) ==
  /\ conns[k].state = "unused" /\ NameFree(n, k)
  /\ conns' = [conns EXCEPT ![k] = [state |-> "there", name |-> n, type |-> t, active |-> TRUE,
                                    tested |-> "not_tested", moved |-> FALSE]]
  /\ UNCHANGED <<dests, controls, links>>
\* update_connection: any column, whoever refers to the row; the table refuses a name that is taken.
UpdateConn(k, n, t, a) ==
  /\ ConnThere(k) /\ NameFree(n, k) /\ <<n, t, a>> # <<conns[k].name, conns[k].type, conns[k].active>>
  /\ conns' = [conns EXCEPT ![k].name = n, ![k].type = t, ![k].active = a,
                            ![k].moved = @ \/ t # conns[k].type]
  /\ UNCHANGED <<dests, controls, links>>
DeleteConn(k) ==
  /\ ConnThere(k)
  /\ conns' = [conns EXCEPT ![k].state = "gone", ![k].moved = TRUE]
  /\ UNCHANGED <<dests, controls, links>>
\* test, once the server answered; what it said stays when the row changes later.
TestConn(k, outcome) ==
  /\ ConnThere(k) /\ outcome \in {"success", "failed"}
  /\ conns' = [conns EXCEPT ![k].tested = outcome]
  /\ UNCHANGED <<dests, controls, links>>

-----------------------------------------------------------------------------
\* validate: the connection is there and of the type of the destination, which names its table or
\* is a template.
\* mutant: the type is not compared
Valid_AnyType(d) == ConnThere(d.conn) /\ (d.named \/ d.template)
Valid(d) == ConnThere(d.conn) /\ conns[d.conn].type = d.type /\ (d.named \/ d.template)
DestAs(k, t, named, template) ==
  [state |-> "there", conn |-> k, type |-> t, named |-> named, template |-> template, active |-> TRUE,
   tested |-> "not_tested"]

\* create_destination; the id is its own from the flush on.
CreateDest(d, k, t, named, template) ==
  LET row == DestAs(k, t, named, template) IN
  /\ dests[d].state = "unused" /\ (\A r \in waiting : r.dest # d) /\ Valid(row)
  /\ waiting' = waiting \union {[dest |-> d, new |-> TRUE, row |-> row, columns |-> {}]}
\* The session writes the columns that differ from those it read.
AskDest(d, row) ==
  LET columns == {c \in Written : row[c] # dests[d][c]} IN
  /\ DestThere(d) /\ columns # {}
  /\ waiting' = waiting \union {[dest |-> d, new |-> FALSE, row |-> row, columns |-> columns]}
\* update_destination validates what the row would become, with the columns as they were read.
UpdateDest(d, k, named, template, a) ==
  LET row == [dests[d] EXCEPT !.conn = k, !.named = named, !.template = template, !.active = a]
  IN Valid(row) /\ AskDest(d, row)
\* delete_destination marks the row, and those that name it keep doing so.
DeleteDest(d) == AskDest(d, [dests[d] EXCEPT !.state = "deleted", !.active = FALSE])
\* test_destination: failed unless the connection is there and active.
TestDest(d, outcome) ==
  /\ outcome = "success" => ConnThere(dests[d].conn) /\ conns[dests[d].conn].active
  /\ AskDest(d, [dests[d] EXCEPT !.tested = outcome])

\* The commit of a request, by primary key: of a row deleted meanwhile too, which stays deleted.
CommitDest(r) ==
  /\ dests' = [dests EXCEPT ![r.dest] =
                 IF r.new THEN r.row ELSE [c \in DOMAIN @ |-> IF c \in r.columns THEN r.row[c] ELSE @[c]]]
  /\ waiting' = waiting \ {r}
  /\ UNCHANGED <<conns, controls, links, changes>>

-----------------------------------------------------------------------------
\* create_control, update_control: nothing that the row names is looked at, and the screens offer what
\* was there when they were opened.
Offered(source, target, dest) ==
  /\ \A k \in {source, target} \ {None} : conns[k].state # "unused"
  /\ dest # None => dests[dest].state # "unused"
CreateControl(c, source, target, dest, bucket) ==
  /\ controls[c].state = "unused" /\ Offered(source, target, dest)
  /\ controls' = [controls EXCEPT ![c] = [state |-> "there", source |-> source, target |-> target, dest |-> dest,
                                          bucket |-> bucket, active |-> TRUE]]
  /\ UNCHANGED <<conns, dests, links>>
UpdateControl(c, source, target, dest) ==
  /\ ControlThere(c) /\ Offered(source, target, dest)
  /\ controls' = [controls EXCEPT ![c].source = source, ![c].target = target, ![c].dest = dest]
  /\ controls' # controls
  /\ UNCHANGED <<conns, dests, links>>
\* activate, deactivate
SwitchControl(c) ==
  /\ ControlThere(c)
  /\ controls' = [controls EXCEPT ![c].active = ~@]
  /\ UNCHANGED <<conns, dests, links>>
\* delete_control: its links stay.
DeleteControl(c) ==
  /\ ControlThere(c)
  /\ controls' = [controls EXCEPT ![c].state = "gone"]
  /\ UNCHANGED <<conns, dests, links>>

\* add_link: a deleted destination is still a row; one link per control, destination and role.
Linked(c, d, r) == \E l \in links : l.control = c /\ l.dest = d /\ l.role = r
AddLink(c, d, r) ==
  /\ ControlThere(c) /\ dests[d].state # "unused" /\ ~Linked(c, d, r)
  /\ links' = links \union {[control |-> c, dest |-> d, role |-> r, active |-> TRUE]}
  /\ UNCHANGED <<conns, dests, controls>>
\* update_link; the table refuses a role that is taken.
UpdateLink(l, r, a) ==
  /\ r = l.role \/ ~Linked(l.control, l.dest, r)
  /\ links' = (links \ {l}) \union {[l EXCEPT !.role = r, !.active = a]}
  /\ links' # links
  /\ UNCHANGED <<conns, dests, controls>>
RemoveLink(l) == links' = links \ {l} /\ UNCHANGED <<conns, dests, controls>>

-----------------------------------------------------------------------------
ConnRequest ==
  \E k \in Conn :
    \/ \E n \in Name, t \in Type : CreateConn(k, n, t) \/ \E a \in BOOLEAN : UpdateConn(k, n, t, a)
    \/ DeleteConn(k)
    \/ \E outcome \in Tested : TestConn(k, outcome)
DestRequest ==
  \E d \in Dest :
    \/ \E k \in Conn, named, template \in BOOLEAN :
         \/ \E t \in {"postgres", "s3"} : CreateDest(d, k, t, named, template)
         \/ \E a \in BOOLEAN : UpdateDest(d, k, named, template, a)
    \/ DeleteDest(d)
    \/ \E outcome \in {"success", "failed"} : TestDest(d, outcome)
ControlRequest ==
  \E c \in Control :
    \/ \E source, target \in Conn \union {None}, dest \in Dest \union {None} :
         (\E b \in BOOLEAN : CreateControl(c, source, target, dest, b)) \/ UpdateControl(c, source, target, dest)
    \/ SwitchControl(c) \/ DeleteControl(c)
    \/ \E d \in Dest, r \in Role : AddLink(c, d, r)
LinkRequest == \E l \in links : RemoveLink(l) \/ \E r \in Role, a \in BOOLEAN : UpdateLink(l, r, a)

RegistryRequest ==
  \/ (ConnRequest \/ ControlRequest \/ LinkRequest) /\ UNCHANGED waiting
  \/ DestRequest /\ UNCHANGED rowVars
RegistryNext == (Change /\ RegistryRequest) \/ \E r \in waiting : CommitDest(r)
RegistrySpec == RegistryInit /\ [][RegistryNext]_registryVars

-----------------------------------------------------------------------------
\* Rows have the columns of their tables.
RegistryTypeOK ==
  /\ conns \in [Conn -> ConnRow] /\ dests \in [Dest -> DestRow] /\ controls \in [Control -> ControlRow]
  /\ links \subseteq Link /\ waiting \subseteq DestAsked
  /\ changes \in 0..MaxChanges

\* A destination that can be chosen fits its connection, unless the connection was retyped or
\* deleted under it: no creations, updates, deletions and tests of destinations, each validated
\* against the columns it read and overlapping as they will, get another in.
MisfitsOnlyByConnection ==
  \A d \in Dest : DestThere(d) =>
    LET k == conns[dests[d].conn] IN (k.state = "there" /\ k.type = dests[d].type) \/ k.moved

\* What the comment in validate says of every destination: one that is no template names its table.
\* Not so: a request that empties the table of a template and one that makes it no template, each
\* valid against the row as it was read, commit one column each.
DestinationsAreComplete == \A d \in Dest : DestThere(d) => dests[d].named \/ dests[d].template
=============================================================================
