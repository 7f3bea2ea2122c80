CONSTANTS
  r1 = r1
  r2 = r2
  d1 = d1
  d2 = d2
  d3 = d3
  k1 = k1
  NoRow = NoRow
  NoKey = NoKey
  Recovery = Recovery
  Requests <- MCOneOperation
  Decisions <- MCOneDecision
  Keys <- MCKeys
  RetryAttempts = 1
  MaxOverruns = 0
  MaxFaults = 1
SPECIFICATION FairSpec
CHECK_DEADLOCK FALSE
PROPERTY RunningIsLeft
