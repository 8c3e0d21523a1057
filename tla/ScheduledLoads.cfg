CONSTANTS
  p1 = p1
  p2 = p2
  c1 = c1
  c2 = c2
  c3 = c3
  Replica = {p1, p2}
  Schedule = {s1, s2}
  Given = {s1}
  Periods = {1}
  MaxActiveRuns = 1
  MaxClock = 3
  MaxRequests = 2
  MaxFires = 4
  MaxFaults = 1
  Load = {x1}
  ToTargets = {c1, c2}
  ToMySQL = {c3}
  MaxInstant <- Few
  MaxLoads = 2
  MaxLoadFaults = 1
  Lib = {l1}
  Build = {1, 2}
  Check = {1, 2}
  Container = {1, 2}
  Base = base
  Gone = gone
  MaxManifest = 1
  MaxActivations = 2
SPECIFICATION ScheduledSpec
SYMMETRY Interchangeable
INVARIANTS FiresOncePerSlot OverlapBounded NoRowLeftBehind MarkedOnlyByAccident
PROPERTIES ApplyVouches
CHECK_DEADLOCK FALSE
