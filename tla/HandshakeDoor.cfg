CONSTANTS
  SECOND = 4
  PERIOD = 2
  TICKS = 2
  DELAY = 1
  FLIGHT = 0
  GRAIN = 2
  REKEY_TIMEOUT = 6
  COOKIE_REFRESH = 13
  COOKIE_EXPIRATION_TIME = 13
  HANDSHAKE_RATE_LIMIT = 1
  Address = {a1, a2}
  NoCookie = NoCookie
  HorizonTime = 26
  MaxTrouble = 1
SYMMETRY AddressSymmetry
SPECIFICATION Spec
INVARIANTS RetryIsAccepted CookieLetsIn LoadIsForgotten
CHECK_DEADLOCK FALSE
