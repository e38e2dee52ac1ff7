CONSTANTS
  w1 = w1
  w2 = w2
  Workers = {w1}
  Requests = {r1}
  None = None
  MaxTasks = 1
  MaxSessions <- TwoSessions
  Profile <- MCProfile
  Needs <- PlainJobs
SPECIFICATION Spec
INVARIANT ConnectedIsRegistered
CHECK_DEADLOCK FALSE
