CONSTANTS
  x = x
  y = y
  w1 = w1
  w2 = w2
  t1 = t1
  p = p
  q = q
  n = n
  o = o
  pull = pull
  doc = doc
  TraceRef = TraceRef
  Global = Global
  NoRef = NoRef
  Storers <- MCStorers
  Workspaces <- MCWorkspaces
  TaskScopes <- MCTaskScopes
  Statements <- MCStatements
  Polarity <- MCPolarity
  OverlapPairs <- MCOverlapPairs
  CommonPairs <- MCCommonPairs
  ArtifactRefs <- MCArtifactRefs
  TextOrder <- MCTextOrder
  StrongRefs <- MCStrongRefs
  Requests <- MCRequests
  MaxEpisodes = 3
  MaxDisturbances = 1
  Events <- MCEvents
  MaxStarts = 2
  MaxEvents = 4
  AlikePairs <- MCAlikePairs
  MaxGuidance = 2
  StaleContext = StaleContext
SPECIFICATION Spec
CHECK_DEADLOCK FALSE
SYMMETRY Symmetric
INVARIANTS
  ConnectorTypeOK
  AcceptedAgree
  SignalsAreKept
  ClaimsAreProven
  GuidanceIsConsistent
  LearnedOnce
