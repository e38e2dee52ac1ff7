CONSTANTS
  h1 = h1
  h2 = h2
  wBroadcast = wBroadcast
  wDirect = wDirect
  Workers = {wBroadcast}
  Hosts = {h1, h2}
  DirectHost <- MCDirectHost
  None = None
SPECIFICATION FairDiscoverySpec
PROPERTY StaysConnected
