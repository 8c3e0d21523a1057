CONSTANTS
  l1 = l1
  c1 = c1
  c2 = c2
  c3 = c3
  d1 = d1
  d2 = d2
  pip1 = pip1
  Load = {l1}
  ToTargets = {c1, c2}
  ToMySQL = {c3}
  MaxInstant <- Few
  MaxLoads = 1
  MaxLoadFaults = 1
  Report <- Reports
  LoadControl <- Controls
  MaxGraded = 2
  MaxEmitFaults = 1
  LakeTable = {"t1", "t2"}
  Hash = {"h1", "h2"}
  MaxWrites = 3
  MaxScans = 3
  Client = {d1, d2}
  Job = {1, 2}
  NameOf <- Names
  MaxCalls = 4
  Attempts = 2
  BatchLimit = 2
  MaxEvents = 2
  MaxRetries = 2
  MaxInterrupts = 1
  Library = {pip1}
  MaxQueued = 3
  MaxStops = 1
SPECIFICATION LoadsSpec
INVARIANTS TypesOK DeliveredOnce AttemptsRunOut ResultsAreAnnounced ShownIsAnnounced CodeIsKept LibraryTellsTheTruth
PROPERTIES ImplementsDelivery EventsEnd QueuesDrain
CHECK_DEADLOCK FALSE
