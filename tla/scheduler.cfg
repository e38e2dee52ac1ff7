CONSTANTS
  Workers <- PoolWorkers
  Profile <- PoolProfile
  Needs <- PoolNeeds
  MaxTasks = 0
  MaxSessions <- NoSessions
  Requests = {}
  None = None
SPECIFICATION PoolSpec
INVARIANTS SelectionIsBestFit GpusAreCountedOnce
PROPERTY ChoiceIgnoresBystanders
