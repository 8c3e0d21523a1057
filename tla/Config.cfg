CONSTANTS
  k1 = k1
  k2 = k2
  k3 = k3
  e1 = e1
  e2 = e2
  c1 = c1
  c2 = c2
  v1 = v1
  v2 = v2
  s1 = s1
  j1 = j1
  j2 = j2
  o1 = o1
  Conn = {k1, k2, k3}
  Dest = {e1, e2}
  Control = {c1, c2}
  Name = {"n1", "n2"}
  SetUp <- Rows
  MaxChanges = 2
  Jobs <- Declared
  Admin = {a1, a2}
  Secret = {p1, p2}
  Value = {"x", "y"}
  Key = {"m1", "m2"}
  Var = {v1, v2}
  Scope <- Scopes
  MaxEdits = 3
  Actor = {a1, a2}
  Job = {j1}
  Sched = {s1}
  Pipe = {q1}
  JobOf <- Scheduled
  MaxAsks = 4
  MaxOpen = 2
  Asker = {d1, d2}
  Tagged = {j1}
  Tag = {t1, t2, t3}
  Slug = {"s1", "s2"}
  MaxTagAsks = 3
  Load = {o1}
  Task = {j1, j2}
  ControlOf <- Loaded
  NoLoad = "none"
  Watched <- Watch
  Conns = {k1}
  NoConn = "none"
  DayLength = 2
  HistoryNeeded = 1
  ListLimit = 1
  RecentLimit = 1
  LastNow = 4
  MaxRuns = 2
SPECIFICATION ConfigSpec
INVARIANTS MisfitsOnlyByConnection TargetIsWhole StoredIsLastGiven DeletedIsIdle TagsAreThoseGiven PanelsAgree
CHECK_DEADLOCK FALSE
