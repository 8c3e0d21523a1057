CONSTANTS
  w1 = w1
  w2 = w2
  Worker = {w1, w2}
  SlowWorker = {}
  Cancellable = {1}
  Endless = {}
  RetryCount = 0
  MaxRuns = 1
  MaxExec = 1
  MaxCrashes = 0
SPECIFICATION Spec
INVARIANT CancelledNeverRuns
