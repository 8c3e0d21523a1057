------------------------------- MODULE Secrets -------------------------------
(***************************************************************************)
(* What is kept under the master key: the credentials of a connection and  *)
(* the variables of jobs.  Two administrators edit them; a request reads   *)
(* the row, and later writes the columns it changed.  The password has a   *)
(* column of its own, the other secrets of a connection share one that is  *)
(* read, merged and written whole.  A variable keeps its value encrypted   *)
(* or plain, as it is secret or not at the time.                           *)
(***************************************************************************)
EXTENDS Naturals, FiniteSets

CONSTANTS
  Admin, Secret,         \* who edits; the names of the secrets in the shared column
  Value, Key,            \* what is given, and the master keys there may be
  Var, Scope,            \* variables of one name: Scope[v] is "global" or "environment"
  MaxEdits               \* bound: requests, and replacements of the key

VARIABLES
  master,                \* CONNECTION_SECRET_KEY of the processes
  password, blob,        \* password_encrypted, secrets_encrypted
  vars,                  \* the rows of the variables
  form,                  \* the request each administrator has under way
  edits,
  given,                 \* history: the value each was last given, as saved
  excused                \* history: those that a request may have spoilt, and how is said below

secretVars == <<master, password, blob, vars, form, edits, given, excused>>

Nothing == "nothing"
Plain == "plain"
Ciphertext == "ciphertext"
NoVar == "no variable"
\* A column: what it holds, and the key that opens it.
Kept(by, v) == [by |-> by, of |-> v]
Empty == Kept(Plain, Nothing)
\* encrypt_secret
Sealed(v) == Kept(master, v)
\* decrypt_secret: "" for what another key sealed, or no key did.
Opened(cell) == IF cell.by = master THEN cell.of ELSE Nothing

\* The secrets of the shared column.
NoSecrets == [s \in Secret |-> Nothing]
\* decrypt_secrets: {} for what it cannot read.
Secrets(cell) == IF cell.by = master THEN cell.of ELSE NoSecrets
\* encrypt_secrets: an empty dict is no blob at all.
SealedBlob(secrets) == IF secrets = NoSecrets THEN Kept(Plain, NoSecrets) ELSE Sealed(secrets)
\* _apply_secrets, on the row as it was read: an empty value keeps the current one.
\* mutant: the blob becomes what the request gave
Merged_Replaced(old, new) == new
Merged(old, new) == [s \in Secret |-> IF new[s] # Nothing THEN new[s] ELSE Secrets(old)[s]]

\* A variable: kind is variable_type, "secret" or any other.
Variable == [state : {"unused", "there", "deleted"}, secret : BOOLEAN, kind : {"string", "secret"}, active : BOOLEAN,
             value : [by : Key \union {Plain}, of : Value \union {Nothing}]]
\* is_secret_variable
IsSecret(kind, flag) == flag \/ kind = "secret"
\* store_value, by what the request makes of the variable
StoreValue(v, secret) == IF v = Nothing THEN Empty ELSE IF secret THEN Sealed(v) ELSE Kept(Plain, v)
\* reveal_value: the column itself if the variable is not secret.
Reveal(row) == IF row.value = Empty THEN Nothing
               ELSE IF row.secret THEN Opened(row.value)
               ELSE IF row.value.by = Plain THEN row.value.of
               ELSE Ciphertext
Present(v) == vars[v].state = "there"
\* resolve_runtime_variables: of the active ones that have a value, that of the environment over the
\* global (nothing links a variable to a job yet).
Applies(v) == Present(v) /\ vars[v].active /\ vars[v].value # Empty
Resolved ==
  LET use == {v \in Var : Applies(v)}
      first == {v \in use : Scope[v] = "environment"} IN
  IF use = {} THEN NoVar ELSE CHOOSE v \in use : first # {} => v \in first

ASSUME SecretsAssumption ==
  /\ Key # {} /\ Plain \notin Key /\ Nothing \notin Value /\ MaxEdits \in Nat
  /\ Secret \intersect Var = {} /\ "password" \notin Secret \union Var
SecretsInit ==
  /\ master = CHOOSE k \in Key : TRUE
  /\ password = Empty /\ blob = Kept(Plain, NoSecrets)
  /\ vars = [v \in Var |-> [state |-> "unused", secret |-> FALSE, kind |-> "string", active |-> TRUE, value |-> Empty]]
  /\ form = [a \in Admin |-> [of |-> "nothing"]]
  /\ edits = 0
  /\ given = [x \in {"password"} \union Secret \union Var |-> Nothing] /\ excused = {}

-----------------------------------------------------------------------------
Free(a) == form[a].of = "nothing"
Began(a, request) == Free(a) /\ edits < MaxEdits /\ edits' = edits + 1 /\ form' = [form EXCEPT ![a] = request]
Done(a) == form' = [form EXCEPT ![a] = [of |-> "nothing"]]
Recall(x, v) == given' = [given EXCEPT ![x] = v]

\* update_connection, rotate_secret: the row as it is read, and what was typed; a form may send its
\* secrets though all are empty.
EditConn(a) ==
  \E pw \in Value \union {Nothing}, new \in [Secret -> Value \union {Nothing}], sent \in BOOLEAN :
    /\ new # NoSecrets => sent
    /\ Began(a, [of |-> "conn", pw |-> pw, sent |-> sent, new |-> new, read |-> blob])
    /\ UNCHANGED <<master, password, blob, vars, given, excused>>
\* The columns that were set are written.  The blob is of the row read: what was saved in between,
\* and what it could not read, is not in it.
SaveConn(a) ==
  LET f == form[a] IN
  /\ f.of = "conn" /\ Done(a)
  /\ password' = IF f.pw # Nothing THEN Sealed(f.pw) ELSE password
  /\ IF ~f.sent THEN blob' = blob /\ excused' = excused
     ELSE /\ blob' = SealedBlob(Merged(f.read, f.new))
          /\ excused' = {x \in excused : x \notin Secret \/ f.new[x] = Nothing} \union
                        {s \in Secret : f.new[s] = Nothing /\ (f.read # blob \/ f.read.by \notin {master, Plain})}
  /\ given' = [x \in DOMAIN given |-> IF x = "password" /\ f.pw # Nothing THEN f.pw
                                      ELSE IF x \in Secret /\ f.new[x] # Nothing THEN f.new[x] ELSE given[x]]
  /\ UNCHANGED <<master, vars, edits>>

\* create_variable: one row of a name, a scope and an environment.
CreateVar(v) ==
  \E x \in Value \union {Nothing}, kind \in {"string", "secret"}, flag \in BOOLEAN :
    LET secret == IsSecret(kind, flag) IN
    /\ vars[v].state = "unused" /\ edits < MaxEdits /\ edits' = edits + 1
    /\ vars' = [vars EXCEPT ![v] = [state |-> "there", secret |-> secret, kind |-> kind, active |-> TRUE,
                                 value |-> StoreValue(x, secret)]]
    /\ Recall(v, x) /\ excused' = excused \ {v}
    /\ UNCHANGED <<master, password, blob, form>>
\* update_variable: what the row becomes follows from the row read; no value keeps the one there is, and
\* an empty one clears it unless the variable is secret.
EditVar(a, v) ==
  \E x \in Value \union {Nothing, "kept"}, kind \in {"string", "secret"}, flag \in BOOLEAN :
    /\ Present(v)
    /\ Began(a, [of |-> "var", v |-> v, x |-> x, kind |-> kind, secret |-> IsSecret(kind, flag), read |-> vars[v]])
    /\ UNCHANGED <<master, password, blob, vars, given, excused>>
\* mutant: the value is stored as the variable was, not as the request makes it
NewValue_AsItWas(f) ==
  IF f.x \in Value THEN StoreValue(f.x, f.read.secret)
  ELSE IF f.x = Nothing /\ ~f.secret THEN Empty ELSE f.read.value
NewValue(f) ==
  IF f.x \in Value THEN StoreValue(f.x, f.secret)
  ELSE IF f.x = Nothing /\ ~f.secret THEN Empty ELSE f.read.value
\* A column is written if the request changed it; an encryption is never twice the same.
Changed(f, old, new, now) == IF old # new \/ (f.x \in Value /\ f.secret) THEN new ELSE now
SaveVar(a) ==
  LET f == form[a]
      now == vars[f.v]
      sets == f.x \in Value \/ (f.x = Nothing /\ ~f.secret) IN
  /\ f.of = "var" /\ Done(a)
  /\ IF now.state = "deleted" THEN UNCHANGED <<vars, given, excused>>      \* deleted in between
     ELSE
     /\ vars' = [vars EXCEPT ![f.v] =
                   [state |-> "there",
                    secret |-> IF f.secret # f.read.secret THEN f.secret ELSE now.secret,
                    kind |-> IF f.kind # f.read.kind THEN f.kind ELSE now.kind,
                    active |-> now.active,
                    value |-> Changed(f, f.read.value, NewValue(f), now.value)]]
     /\ given' = IF sets THEN [given EXCEPT ![f.v] = IF f.x \in Value THEN f.x ELSE Nothing] ELSE given
     \* Turned secret or back without a value, or saved over another request.
     /\ excused' = IF now # [f.read EXCEPT !.active = now.active] \/ (~sets /\ f.secret # f.read.secret) THEN excused \union {f.v}
                   ELSE IF sets THEN excused \ {f.v} ELSE excused
  /\ UNCHANGED <<master, password, blob, edits>>
\* _toggle, delete_variable
ToggleVar(v) ==
  /\ Present(v) /\ edits < MaxEdits /\ edits' = edits + 1
  /\ vars' = [vars EXCEPT ![v].active = ~@]
  /\ UNCHANGED <<master, password, blob, form, given, excused>>
DeleteVar(v) ==
  /\ Present(v) /\ edits < MaxEdits /\ edits' = edits + 1
  /\ vars' = [vars EXCEPT ![v].state = "deleted"] /\ Recall(v, Nothing)
  /\ UNCHANGED <<master, password, blob, form, excused>>

\* The processes are started again under another key, which may be the one before.
Rekey(k) ==
  /\ k # master /\ edits < MaxEdits /\ edits' = edits + 1
  /\ master' = k /\ form' = [a \in Admin |-> [of |-> "nothing"]]
  /\ UNCHANGED <<password, blob, vars, given, excused>>

ConnSecrets == \E a \in Admin : EditConn(a) \/ SaveConn(a)
Variables ==
  \/ \E v \in Var : CreateVar(v) \/ ToggleVar(v) \/ DeleteVar(v) \/ \E a \in Admin : EditVar(a, v)
  \/ \E a \in Admin : SaveVar(a)
Rekeyed == \E k \in Key : Rekey(k)

SecretsNext == ConnSecrets \/ Variables \/ Rekeyed
SecretsSpec == SecretsInit /\ [][SecretsNext]_secretVars

-----------------------------------------------------------------------------
SecretsTypeOK ==
  /\ master \in Key /\ edits \in 0..MaxEdits
  /\ password \in [by : Key \union {Plain}, of : Value \union {Nothing}]
  /\ blob \in [by : Key \union {Plain}, of : [Secret -> Value \union {Nothing}]]
  /\ vars \in [Var -> Variable]
  /\ excused \subseteq Secret \union Var

\* What can be read is what was given last, and what was given can be read under its key: of a
\* connection's secrets each by itself, of a variable the value that a job is started with.  Not those
\* saved over a blob that had changed since it was read or was sealed under another key, nor a variable
\* that changed between secret and not without a value, or under two requests at once.
StoredIsLastGiven ==
  /\ password.by = master \/ given["password"] = Nothing => Opened(password) = given["password"]
  /\ blob.by = master => \A s \in Secret \ excused : Secrets(blob)[s] = given[s]
  /\ LET v == Resolved IN
     v # NoVar /\ v \notin excused /\ vars[v].value.by \in {master, Plain} => Reveal(vars[v]) = given[v]
=============================================================================
