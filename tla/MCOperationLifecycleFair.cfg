CONSTANTS
  r1 = r1
  r2 = r2
  d1 = d1
  d2 = d2
  k1 = k1
  q1 = q1
  NoRow = NoRow
  NoKey = NoKey
  Recovery = Recovery
  Requests <- MCRequests
  Keys <- MCKeys
  RequestIds <- MCOneId
  Decisions <- MCOneDecision
  RetryAttempts = 1
  MaxOverruns = 0
  MaxAborts = 1
  MaxFaults = 1
SPECIFICATION FairSpec
CHECK_DEADLOCK FALSE
PROPERTIES
  CreatedIsLeft
  PermittedIsClaimed
  RunningIsLeftUnlessFault
