\* Maps that evolve, commands that fail, switches that are rolled back; then the newest map.
CONSTANTS
  dir = dir p = p q = q
  ad = ad a1 = a1 a2 = a2 a3 = a3 a4 = a4
  e1 = e1 e2 = e2
  None = None
  Peer <- MCPeer
  Address <- MCAddress
  Endpoint <- MCEndpoint
  Maps <- EvolvingMaps
  Preinstalled <- MCPreinstalled
  MaxFailures = 2
  MaxSwitches = 2
  MaxRoams = 1
SPECIFICATION FairSpec
INVARIANTS TypeOK FingerprintsAreTrue ViewsAgree RelayIsInstalled
PROPERTIES MapKeepsSelection NewestMapIsApplied
CHECK_DEADLOCK FALSE
