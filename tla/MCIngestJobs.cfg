CONSTANTS
  j1 = j1
  j2 = j2
  j3 = j3
  w1 = w1
  k1 = k1
  x1 = x1
  x2 = x2
  NoWorker = NoWorker
  NoKey = NoKey
  NoId = NoId
  Jobs <- MCJobs
  JobTypes <- MCTypes
  DedupeKeys <- MCJobs
  Workers <- MCWorkers
  IdempotencyKeys <- MCKeys
  Cancels <- MCCancels
  MaxAttempts = 2
  BatchLimit = 2
  MaxCrashes = 0
  MaxFaults = 1
SPECIFICATION Spec
CHECK_DEADLOCK FALSE
SYMMETRY Symmetric
INVARIANTS
  IngestTypeOK
  CancelledIsNotQueued
  AcceptedIsQueued
