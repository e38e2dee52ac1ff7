CONSTANTS
  Handlers = {h1, h2}
  Dashboards = {d1, d2}
  MaxChanges = 2
  MaxAnswers = 1
  Pages = {d1}
  None = None
SPECIFICATION FairBroadcastSpec
INVARIANTS BroadcastTypeOK BInv WordInv NoDashboardLeftBehind LastWordIsCurrent SubscriptionsHold PageIsCurrent
PROPERTY DashboardsCatchUp
CHECK_DEADLOCK FALSE
