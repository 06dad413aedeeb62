\* One map replaces the routes in mid-run.
CONSTANTS
  direct = direct
  relay1 = relay1
  relay2 = relay2
  RouteKey <- MCRoutes
  RouteLists <- MCLists
  INITIAL_FAILOVER_GRACE = 2
  INBOUND_SILENCE_TIMEOUT = 3
  MIN_POLICY_SWITCH_INTERVAL = 5
  RECOVERY_PROBE_INTERVAL = 5
  MAX_SWITCH_BACKOFF_SHIFT = 1
  SWITCH_BACKOFF_RESET_INTERVAL = 6
  POLICY_FAILURE_DECAY_INTERVAL = 6
  MAX_HEALTH_JITTER = 1
  MaxGap = 2
  MaxTime = 13
  MaxMaps = 1
SPECIFICATION Spec
INVARIANTS TypeOK LabelAgreesWithScore
PROPERTIES HistoryFollowsRoute BlameNeedsSilence FailoversAreSpaced FailureIsTemporary ProbesAreSafe DeadRouteIsLeft
CHECK_DEADLOCK FALSE
