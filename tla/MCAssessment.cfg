SPECIFICATION Spec
CONSTANTS
  Amount <- MCAmount
  Typical <- MCTypical
  Factor <- MCFactor
  Speed <- MCSpeed
  Links <- MCLinks
  LiveCase <- MCLiveCase
  MaxTurns = 6
INVARIANTS VerdictOnEvidence NoAgentReleases DocumentedOutcome
CHECK_DEADLOCK FALSE
