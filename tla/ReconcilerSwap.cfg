\* Two peers exchange their tunnel addresses.
CONSTANTS
  dir = dir p = p q = q
  ad = ad a1 = a1 a2 = a2 a3 = a3 a4 = a4
  e1 = e1 e2 = e2
  None = None
  Peer <- MCPeer
  Address <- MCAddress
  Endpoint <- MCEndpoint
  Maps <- SwappingMaps
  Preinstalled <- MCPreinstalled
  MaxFailures = 0
  MaxSwitches = 0
  MaxRoams = 1
SPECIFICATION FairSpec
PROPERTIES EveryMapIsApplied
CHECK_DEADLOCK FALSE
