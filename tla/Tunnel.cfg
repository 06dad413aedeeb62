SPECIFICATION Spec
CONSTANTS
  A = A
  B = B
  End <- MCEnd
  N_SESSIONS = 2
  INDEXES = 4
  REKEY_AFTER_TIME = 1
  REJECT_AFTER_TIME = 3
  REKEY_ATTEMPT_TIME = 2
  REKEY_TIMEOUT = 1
  KEEPALIVE_TIMEOUT = 1
  PENDING_PACKET_TTL = 2
  REJECT_AFTER_MESSAGES = 3
  PERSISTENT_KEEPALIVE = 0
  STAMP_LAG = 0
  Prompt = FALSE
  MaxTime = 5
  MaxIndex = 4
  MaxData = 1
  MaxLoss = 0
  MaxNet = 2
  MaxBoot = 1
  MaxTrouble = 1
SYMMETRY MCSymmetry
CHECK_DEADLOCK FALSE
INVARIANTS SessionsPair CurrentIsNewest
