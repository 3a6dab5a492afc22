SPECIFICATION Spec
CONSTANTS
  r1 = r1
  r2 = r2
  Run <- MCRun
  RiskScore = {39, 40, 70}
  Capacity = 1
  Limit = 1
  MaxColdStarts = 1
SYMMETRY MCSymmetry
INVARIANTS ValidExactlyInOrder AnsweredIsRecorded OwnRunListed
CHECK_DEADLOCK FALSE
