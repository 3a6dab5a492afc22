SPECIFICATION Spec
CONSTANTS
  a1 = a1
  a2 = a2
  a3 = a3
  s1 = s1
  e1 = e1
  i1 = i1
  dublin = dublin
  tokyo = tokyo
  w1 = w1
  w2 = w2
  Attempt <- MCAttempt
  Signup <- MCSignup
  Email <- MCEmail
  Ip <- MCIp
  Place <- MCPlace
  Password <- MCPassword
  Nobody = Nobody
  NoPassword = NoPassword
  IpThreshold = 2
  AccountThreshold = 3
  MaxFaults = 1
SYMMETRY MCSymmetry
INVARIANTS TypeOK TravelTold BurstTold WarningsHaveCause
CHECK_DEADLOCK FALSE
