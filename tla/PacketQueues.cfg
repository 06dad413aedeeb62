\* Two peers, three descriptors, four bytes: both limits of the pool bind.
CONSTANTS
  p1 = p1 p2 = p2
  x1 = x1 x2 = x2 x3 = x3 x4 = x4
  Peer <- MCPeer
  Names <- MCNames
  N = 3
  BYTES = 4
  Sizes = {1, 2}
  MAX_PENDING_PACKETS = 2
  PENDING_PACKET_TTL = 1
  MaxTime = 2
SYMMETRY Symmetry
SPECIFICATION Spec
INVARIANTS ListsAreProper PoolAccounts
PROPERTIES TickSweepsQueues ImplementsFifo
CHECK_DEADLOCK FALSE
