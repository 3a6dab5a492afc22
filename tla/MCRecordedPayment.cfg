SPECIFICATION RecordFairSpec
CONSTANTS
  t1 = t1
  other = other
  Altered = Altered
  Payment <- MCPayment
  Request <- MCRequest
  MaxFaults = 2
INVARIANTS ValidMeansDurable NoFalseAlarm RecordIsKept
PROPERTY RestartRecovers
CHECK_DEADLOCK FALSE
