CONSTANTS
  Endpoints = {lan, typo}
  Coordinator = lan
  MaxActions = 3
  None = None
SPECIFICATION FairDashboardSpec
PROPERTY StreamsLive
