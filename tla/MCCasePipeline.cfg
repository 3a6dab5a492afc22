SPECIFICATION FairSpec
CONSTANTS
  t1 = t1
  acct = acct
  Tx <- MCTx
  Account <- MCAccount
  AccountOf <- MCAccountOf
  RuleScores <- MCRuleScores
  CaseFiles <- MCCaseFiles
  MaxTools = 1
  MaxFaults = 1
INVARIANTS VerifiedMeansComplete ExecutionIsBacked AuditNeverLoosens TrailTellsTheCase
PROPERTIES ImplementsGate EveryCaseEnds
CHECK_DEADLOCK FALSE
