CONSTANTS
  r1 = r1
  r2 = r2
  r3 = r3
  k1 = k1
  q1 = q1
  q2 = q2
  NoRow = NoRow
  NoKey = NoKey
  MaxAborts = 1
  Requests <- MCRequests
  Keys <- MCKeys
  RequestIds <- MCRequestIds
SPECIFICATION Spec
SYMMETRY Symmetric
CHECK_DEADLOCK FALSE
INVARIANT ReplayIsAnswered
