CONSTANTS
  j1 = j1
  j2 = j2
  Job = {j1, j2}
  Graph <- Pairs
  MaxSaves = 1
  MaxRuns = 1
  MaxBackfills = 1
SPECIFICATION BFairSpec
PROPERTY RunsAreRolledUp
