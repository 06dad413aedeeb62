\* Every table of relays, loops included, and a change of it while packets travel;
\* a hop limit that the longest chain just spends.
CONSTANTS
  a = a b = b r1 = r1 r2 = r2
  Absent = Absent
  Node <- MCNode
  Talkers <- MCTalkers
  DEFAULT_HOP_LIMIT = 2
  Routings <- MCRoutings
  Authorizers <- MCAllow
  MaxSend = 3
  MaxUpdate = 1
SPECIFICATION RelaySpec
INVARIANTS ForwardersAgreed
PROPERTIES LoopsDie RoutedIsDelivered
CHECK_DEADLOCK FALSE
