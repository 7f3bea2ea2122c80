CONSTANTS
  a1 = a1
  a2 = a2
  a3 = a3
  c1 = c1
  c2 = c2
  c3 = c3
  NoApproval = NoApproval
  Approvals <- MCApprovals
  OobRequired <- MCOobRequired
  Challenges <- MCChallenges
  Lifetime = 1
  MaxTime = 3
SPECIFICATION Spec
CHECK_DEADLOCK FALSE
SYMMETRY Symmetric
INVARIANTS
  OnePerApproval
  SpentInTime
