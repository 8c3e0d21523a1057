CONSTANTS
  w1 = w1
  w2 = w2
  p1 = p1
  p2 = p2
  s1 = s1
  s2 = s2
  s3 = s3
  a1 = a1
  a2 = a2
  Worker = {w1, w2}
  Hung = {w2}
  MaxNested = 2
  MaxCrashes = 1
  Replica = {p1, p2}
  Schedule = {s1, s2, s3}
  Given = {s1}
  Periods = {1}
  MaxActiveRuns = 1
  MaxClock = 3
  MaxRequests = 1
  MaxFires = 4
  MaxFaults = 1
  Channel = {a1}
  Emitter = {a2}
  Event <- Severity
  AlertMaxAttempts = 2
  AlertBatch = 1
  AlertWindow = 1
  MaxNotifs = 2
  MaxChannelRequests = 1
  MaxAlertFaults = 1
SPECIFICATION ServicesSpec
INVARIANTS OneOrchestrator RepeatedOnlyByAccident
PROPERTIES OrchestrationGoesOn DueIsSettled AlertsSettle
CHECK_DEADLOCK FALSE
