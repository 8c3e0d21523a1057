CONSTANTS
  w1 = w1
  w2 = w2
  Worker = {w1, w2}
  SlowWorker = {}
  Cancellable = {1, 2}
  Endless = {}
  RetryCount = 1
  MaxRuns = 2
  MaxExec = 4
  MaxCrashes = 1
SPECIFICATION Spec
SYMMETRY Interchangeable
INVARIANTS RetryAfterEnd
PROPERTIES ImplementsContract
