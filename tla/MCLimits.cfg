SPECIFICATION Spec
CONSTANTS
  Key <- MCKey
  Burst = 2
  Grain = 2
  Refill = 1
  Window = 3
  Threshold = 2
  MaxClock = 8
  MaxCalls = 4
INVARIANTS GrantsBounded BurstExactlyReported
PROPERTY RefusedOnlyWhenSpent
CHECK_DEADLOCK FALSE
