CONSTANTS
  s0 = s0
  s1 = s1
  n0 = n0
  n1 = n1
  v0 = v0
  v1 = v1
  v2 = v2
  i1 = i1
  i2 = i2
  o1 = o1
  o2 = o2
  w1 = w1
  f1 = f1
  ws = ws
  fs = fs
  NoName = NoName
  NoSchema = NoSchema
  NoVersion = NoVersion
  NoRequest = NoRequest
  NoSpec = NoSpec
  NoParent = NoParent
  Schemas <- MCSchemas
  Names <- MCNames
  BootSchema = s0
  BootName = n0
  Versions <- MCVersions
  Bootstrap = v0
  SendSchema <- MCSendSchema
  DiffSupported = {v0, v1}
  Requests <- MCRequests
  Items <- MCItems
  Operations <- MCOperations
  WorkflowSpecs = {ws}
  InterfaceSpecs = {fs}
  Workflows = {w1}
  Interfaces = {f1}
SPECIFICATION Spec
CHECK_DEADLOCK FALSE
SYMMETRY Symmetric
INVARIANTS
  CompositionTypeOK
  ReferencesResolve
  ApprovalsStayConsumable
  PinsAreReviewed
  WorkflowsEndOnce
  InterfacesAgree
  ReplaysStayDry
