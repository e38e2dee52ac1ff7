CONSTANTS
  w1 = w1
  w2 = w2
  Workers = {w2}
  Requests = {r1}
  None = None
  MaxTasks = 2
  MaxSessions <- TwoSessions
  Profile <- MCProfile
  Needs <- AllJobs
SPECIFICATION FairSpec
PROPERTIES RunningSettles PendingIsServed
CHECK_DEADLOCK FALSE
