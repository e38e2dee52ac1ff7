CONSTANTS
  w1 = w1
  w2 = w2
  Workers = {w1}
  Requests = {r1}
  None = None
  MaxTasks = 2
  MaxSessions <- TwoSessions
  Profile <- MCProfile
  Needs <- AllJobs
SPECIFICATION Spec
INVARIANTS IInv FInv IdleInv AckComesFirst BusyIsTransient IdleUntilReconnect
PROPERTY ImplementsTaskQueue
CHECK_DEADLOCK FALSE
