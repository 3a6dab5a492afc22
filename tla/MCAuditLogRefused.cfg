SPECIFICATION Spec
CONSTANTS
  r1 = r1
  r2 = r2
  r3 = r3
  Altered = Altered
  Request <- MCRequest
  MaxFaults = 2
SYMMETRY MCSymmetry
INVARIANT RefusedStaysOut
CHECK_DEADLOCK FALSE
