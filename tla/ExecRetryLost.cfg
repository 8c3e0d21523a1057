CONSTANTS
  w1 = w1
  w2 = w2
  Worker = {w1, w2}
  SlowWorker = {}
  Cancellable = {}
  Endless = {}
  RetryCount = 1
  MaxRuns = 1
  MaxExec = 2
  MaxCrashes = 0
SPECIFICATION FairSpec
PROPERTY FailedIsRetried
