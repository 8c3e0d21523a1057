CONSTANTS
  w1 = w1
  w2 = w2
  w3 = w3
  Worker = {w1, w2}
  Hung = {}
  MaxNested = 2
  MaxCrashes = 0
SPECIFICATION Spec
PROPERTY SkipsForAnother
