\* Three indexes, so that a fourth new peer finds none; room for one peer less than there are keys.
CONSTANTS
  Caller = {task1, task2}
  Key = {k1, k2, k3}
  None = None
  Net <- MCNet
  IpSets <- MCIpSets
  MAX_PEERS = 2
  BITS = 2
  LFSR_POLY = 3
  RandomIndexes = {1, 3}
  MaxCalls = 4
  MaxCancel = 1
SPECIFICATION FairSpec
INVARIANTS TablesAgree IndexesAreUnique AnswersAreOwn
PROPERTIES CallersAreAnswered
CHECK_DEADLOCK FALSE
