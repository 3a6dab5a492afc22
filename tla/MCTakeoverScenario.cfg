SPECIFICATION MCSpec
CONSTANTS
  a1 = a1
  a2 = a2
  a3 = a3
  s1 = s1
  s2 = s2
  e1 = e1
  e2 = e2
  i1 = i1
  dublin = dublin
  tokyo = tokyo
  w1 = w1
  w2 = w2
  Attempt <- MCAttempt
  Signup <- MCSignup
  Email <- MCEmail
  Ip <- MCIp
  Place <- MCPlace
  Password <- MCPassword
  Nobody = Nobody
  NoPassword = NoPassword
  NoAccount = NoAccount
  Confirmation = Confirmation
  demo = s1
  first = a1
  second = a2
  IpThreshold = 1
  AccountThreshold = 2
  MaxFaults = 0
  MaxPolls = 2
  MaxOutages = 1
INVARIANTS RegistrationStands ReadyMeansWarned
PROPERTIES WarningsArrive FeedComesBack
CHECK_DEADLOCK FALSE
