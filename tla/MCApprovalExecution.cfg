CONSTANTS
  r1 = r1
  r2 = r2
  d1 = d1
  d2 = d2
  d3 = d3
  k1 = k1
  NoRow = NoRow
  NoKey = NoKey
  Recovery = Recovery
  Requests <- MCOneOperation
  Decisions <- MCThreeDecisions
  Keys <- MCKeys
  RetryAttempts = 2
  MaxOverruns = 1
  MaxFaults = 2
SPECIFICATION Spec
CHECK_DEADLOCK FALSE
SYMMETRY Symmetric
INVARIANTS
  ExecutionTypeOK
  PermittedIffConsumed
  OutcomeMatchesSyscall
  OneRunnerPerOperation
  CallsAreBounded
