CONSTANTS
  w1 = w1
  w2 = w2
  Workers = {w1, w2}
  Requests = {r1}
  None = None
  MaxTasks = 2
  MaxSessions <- OneSession
  Profile <- MCProfile
  Needs <- MixedJobs
SPECIFICATION Spec
INVARIANTS TypeOK NoLostWakeup RunningTaskHasOwner BusyIsTransient IdleUntilReconnect
CHECK_DEADLOCK FALSE
