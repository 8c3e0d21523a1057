CONSTANTS
  w1 = w1
  w2 = w2
  Worker = {w1, w2}
  SlowWorker = {w2}
  Cancellable = {1}
  Endless = {1}
  RetryCount = 1
  MaxRuns = 1
  MaxExec = 4
  MaxCrashes = 1
SPECIFICATION FairSpec
INVARIANTS TypeOK ClaimedOnce RetriedTwiceAtMost
PROPERTIES EndedStaysEnded RunsEnd
