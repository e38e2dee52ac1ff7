CONSTANTS
  h1 = h1
  h2 = h2
  wBroadcast = wBroadcast
  wDirect = wDirect
  Workers = {wBroadcast, wDirect}
  Hosts = {h1, h2}
  DirectHost <- MCDirectHost
  None = None
SPECIFICATION FairDiscoverySpec
INVARIANTS DiscoveryTypeOK BackoffFollowsFailures
PROPERTY WorkersJoin
