CONSTANTS
  j1 = j1
  j2 = j2
  Job = {j1, j2}
  Graph <- Graphs
  MaxSaves = 2
  MaxRuns = 2
  MaxBackfills = 1
SPECIFICATION SizedSpec
INVARIANTS BackfillsOK BackfillEndsWithItsWork StepsFollowDependencies RestartsOnlyDownstream
PROPERTIES BackfillsEnd EndsAreFinal RunsEnd
