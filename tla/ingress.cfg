SPECIFICATION FairSpec
CONSTANTS
  h1 = h1
  g2 = g2
  far = far
  madeUp = madeUp
  Hosts <- MCHosts
  Gateways <- MCGateways
  Attached <- MCAttached
  Links <- MCLinks
  Pairs <- MCPairs
  Senders <- MCSenders
  NoPort <- MCNoPort
INVARIANTS
  TypeOK
  HostPortsAreKept
PROPERTIES
  RightPlacesStay
  InterswitchSettles
  IngressHeals
  LocationHeals
