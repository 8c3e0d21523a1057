----------------------------- MODULE LakeCatalog -----------------------------
(***************************************************************************)
(* The Data Lake catalog: a scan lists the bucket, reads the footer of the *)
(* newest Parquet file of each table, replaces what the catalog held and   *)
(* announces the schemas it found.  A load may write to the bucket between *)
(* the listing and the reads.                                              *)
(***************************************************************************)
EXTENDS Events

CONSTANTS
  LakeTable,   \* directories of the bucket that may hold a table
  Hash,        \* schemas a table may have
  MaxWrites,   \* bound: changes of the bucket
  MaxScans     \* bound: scans

VARIABLES
  bucket,      \* the schema of the newest file of each table
  scan,        \* what the scan under way listed: at most one set of tables
  catalog,     \* data_lake_tables with their columns
  schemaEvents,\* integration_outbox
  writes, scans

catalogVars == <<bucket, scan, catalog, schemaEvents, writes, scans>>

Absent == "absent"      \* no directory
Bare == "no columns"    \* no Parquet file, or a footer that could not be read
Stored == {t \in LakeTable : catalog[t] # Absent}

CatalogInit ==
  /\ bucket = [t \in LakeTable |-> Absent] /\ catalog = bucket
  /\ scan = {} /\ schemaEvents = {} /\ writes = 0 /\ scans = 0

\* External: a load writes files with another schema, a table is removed.
BucketChanges(t, schema) ==
  /\ writes < MaxWrites /\ writes' = writes + 1
  /\ bucket' = [bucket EXCEPT ![t] = schema]
  /\ UNCHANGED <<scan, catalog, schemaEvents, scans>>

\* scan_catalog lists the directories of a schema ...
ListTables ==
  /\ scan = {} /\ scans < MaxScans /\ scans' = scans + 1
  /\ scan' = {{t \in LakeTable : bucket[t] # Absent}}
  /\ UNCHANGED <<bucket, catalog, schemaEvents, writes>>

\* ... and then the files of each, and one footer: one that is gone or unreadable gives no columns.
\* (A table is one file here: which file of a prefix decides is left out.)
Inferred(t, unreadable) == IF t \in unreadable \/ bucket[t] = Absent THEN Bare ELSE bucket[t]

\* mutant: a table whose schema was announced before is skipped when only its columns changed
PublishSchemaEvents_Once(events, t, hash, previous) ==
  IF previous # Absent THEN events ELSE Inserted(events, SchemaEvent("SCHEMA_DISCOVERED", t, hash))
\* The three events have one key: what follows the first is never inserted.
PublishSchemaEvents(events, t, hash, previous) ==
  LET discovered == Inserted(events, SchemaEvent("SCHEMA_DISCOVERED", t, hash))
      columns == Inserted(discovered, SchemaEvent("COLUMNS_DISCOVERED", t, hash))
  IN IF previous \in {Absent, Bare, hash} THEN columns ELSE Inserted(columns, SchemaEvent("SCHEMA_CHANGED", t, hash))

\* _persist_scan: what the catalog held is wiped, and the hashes of it that had columns remembered.
\* (The keys name the table: the tables may be taken in any order.)
PersistScan(listed, unreadable) ==
  /\ catalog' = [t \in LakeTable |-> IF t \in listed THEN Inferred(t, unreadable) ELSE Absent]
  /\ schemaEvents' = schemaEvents \union
       UNION {PublishSchemaEvents(schemaEvents, t, Inferred(t, unreadable), catalog[t]) : t \in listed}
  /\ scan' = {}
  /\ UNCHANGED <<bucket, writes, scans>>

\* S3 does not answer: the run fails and the catalog stays.
ScanFails == scan # {} /\ scan' = {} /\ UNCHANGED <<bucket, catalog, schemaEvents, writes, scans>>

CatalogNext ==
  \/ \E t \in LakeTable, schema \in Hash \union {Bare, Absent} : BucketChanges(t, schema)
  \/ ListTables
  \/ \E listed \in scan : \E unreadable \in SUBSET listed : PersistScan(listed, unreadable)
  \/ ScanFails
CatalogSpec == CatalogInit /\ [][CatalogNext]_catalogVars
\* A scan that listed the bucket goes on to its end.
CatalogFairSpec == CatalogSpec /\ WF_catalogVars((\E listed \in scan : PersistScan(listed, {})) \/ ScanFails)
-----------------------------------------------------------------------------
CatalogTypeOK ==
  /\ catalog \in [LakeTable -> Hash \union {Absent, Bare}]
  /\ scan \subseteq SUBSET LakeTable

AnnouncedAs(t, type) == \E e \in schemaEvents : e.key = <<"schema", t, catalog[t]>> /\ e.type = type
\* t2c_data is told of every schema that the catalog shows, however the tables came and went.
ShownIsAnnounced == \A t \in Stored : AnnouncedAs(t, "SCHEMA_DISCOVERED")

\* When the schema of a table is found changed, t2c_data is told that it changed
\* (docs/integrations/t2c_data_events.md:125).
SchemaChangesAnnounced ==
  [][\A t \in LakeTable :
       catalog[t] \in Hash /\ catalog'[t] \in Hash \ {catalog[t]} => AnnouncedAs(t, "SCHEMA_CHANGED")']_catalogVars
=============================================================================
