SPECIFICATION StreamFairSpec
CONSTANTS
  p1 = p1
  p2 = p2
  b1 = b1
  b2 = b2
  Page <- MCPage
  Caller <- MCCaller
  MaxDials <- MCMaxDials
  MaxRestarts = 1
  NoSocket = NoSocket
INVARIANTS RaisesForCause ReturnedReachesAll
PROPERTIES StaleLeave PageComesBack BroadcastEnds
CHECK_DEADLOCK FALSE
