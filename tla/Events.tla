-------------------------------- MODULE Events --------------------------------
(***************************************************************************)
(* The events that T2C Ingest tells t2c_data: how the quality of a load is *)
(* graded, and the idempotency key each kind of event is given.  A row of  *)
(* the outbox whose key is already there is not inserted.                  *)
(***************************************************************************)
EXTENDS Integers, Sequences, FiniteSets

\* enqueue: INSERT ... ON CONFLICT (idempotency_key) DO NOTHING
Inserted(events, e) == IF \E x \in events : x.key = e.key THEN events ELSE events \union {e}
\* Several events, each of a key of its own: in any order.
InsertedAll(events, new) == events \union {e \in new : \A x \in events : x.key # e.key}

Graded(checks, status) == {c \in checks : c.status = status}
Critical(checks) == {c \in Graded(checks, "fail") : c.severity = "critical"}

\* mutant: a warning hides a failure
DqStatus_WarnFirst(checks) ==
  CASE Graded(checks, "warn") # {} -> "warning" [] Graded(checks, "fail") # {} -> "failed" [] OTHER -> "success"
DqStatus(checks) ==
  CASE Graded(checks, "fail") # {} -> "failed" [] Graded(checks, "warn") # {} -> "warning" [] OTHER -> "success"

DqSeverity(checks) ==
  CASE Critical(checks) # {} -> "critical"
    [] Critical(checks) = {} /\ Graded(checks, "fail") # {} -> "high"
    [] Graded(checks, "fail") = {} /\ Graded(checks, "warn") # {} -> "medium"
    [] OTHER -> "low"

\* The share of the checks that passed, in percent; round() takes the even side of a half.
DqScore(checks) ==
  LET n == Cardinality(UNION {Graded(checks, s) : s \in {"pass", "fail", "warn"}})
      p == 100 * Cardinality(Graded(checks, "pass"))
      up == 2 * (p % n) > n \/ (2 * (p % n) = n /\ (p \div n) % 2 = 1)
  IN IF n = 0 THEN 100 ELSE (p \div n) + (IF up THEN 1 ELSE 0)

LineageEvent(x) == [type |-> "LINEAGE_EXECUTION_RECORDED", key |-> <<"lineage", x>>]
ResultEvent(x, table, checks) ==
  [type |-> "DATA_QUALITY_RESULT_RECORDED", key |-> <<"dq", x, table>>,
   status |-> DqStatus(checks), severity |-> DqSeverity(checks), score |-> DqScore(checks)]
ScoreEvent(x, table, checks) ==
  [type |-> "DATA_QUALITY_SCORE_UPDATED", key |-> <<"dq_score", x, table>>,
   status |-> DqStatus(checks), score |-> DqScore(checks)]
CheckEvent(x, check) == [type |-> "DATA_QUALITY_CHECK_FAILED", key |-> <<"dq", x, "check", check>>]
FilesEvent(x, partition) == [type |-> "S3_FILES_WRITTEN", key |-> <<"s3", x, partition>>]
PartitionEvent(x, partition) == [type |-> "S3_PARTITION_CREATED", key |-> <<"s3_part", x, partition>>]
SchemaEvent(type, table, hash) == [type |-> type, key |-> <<"schema", table, hash>>]
\* An incident is known by its execution; every caller that has a control only has no execution.
IncidentEvent(type, x) == [type |-> type, key |-> <<"incident", type, x>>]
===============================================================================
