CONSTANTS
  LakeTable = {"t1"}
  Hash = {"h1", "h2"}
  MaxWrites = 2
  MaxScans = 2
SPECIFICATION CatalogFairSpec
PROPERTY SchemaChangesAnnounced
CHECK_DEADLOCK FALSE
