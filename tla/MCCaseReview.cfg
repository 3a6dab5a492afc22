SPECIFICATION Spec
CONSTANTS
  j1 = j1
  j2 = j2
  OwnJob <- MCOwn
  OtherJob <- MCOther
  Refresh = {q1, q2}
  runs = q1
  NoCase = NoCase
  BatchSize = 2
  Limit = 2
  Capacity = 2
  MaxFaults = 1
INVARIANTS TypeOK ShownIsSaved
PROPERTIES OwnCaseListed ListSettles
CHECK_DEADLOCK FALSE
