CONSTANTS
  w1 = w1
  w2 = w2
  Workers = {w1}
  Requests = {r1}
  None = None
  MaxTasks = 2
  MaxSessions <- TwoSessions
  Profile <- MCProfile
  Needs <- PlainJobs
SPECIFICATION Spec
INVARIANT AvailableMeansIdle
CHECK_DEADLOCK FALSE
