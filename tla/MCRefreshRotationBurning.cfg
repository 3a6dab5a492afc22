SPECIFICATION Spec
CONSTANTS
  c1 = c1
  c2 = c2
  c3 = c3
  f1 = f1
  f2 = f2
  k1 = k1
  k2 = k2
  k3 = k3
  k4 = k4
  Call <- MCCall
  Family <- MCFamily
  Token <- MCToken
  NoFamily = NoFamily
  NoToken = NoToken
  MaxFaults = 1
SYMMETRY MCSymmetry
INVARIANT BurningForcesLogin
CHECK_DEADLOCK FALSE
