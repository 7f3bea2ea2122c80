CONSTANTS
  r1 = r1
  r2 = r2
  d1 = d1
  d2 = d2
  k1 = k1
  q1 = q1
  NoRow = NoRow
  NoKey = NoKey
  Recovery = Recovery
  Requests <- MCRequests
  Keys <- MCKeys
  RequestIds <- MCOneId
  Decisions <- MCDecisions
  RetryAttempts = 2
  MaxOverruns = 0
  MaxAborts = 1
  MaxFaults = 2
SPECIFICATION Spec
SYMMETRY Symmetric
CHECK_DEADLOCK FALSE
INVARIANTS
  OneSideEffectPerRequest
  SendsAreAnchored
  WaitingIsDecidable
PROPERTY ImplementsApprovedAction
