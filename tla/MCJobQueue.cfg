CONSTANTS
  j1 = j1
  j2 = j2
  w1 = w1
  w2 = w2
  k1 = k1
  NoWorker = NoWorker
  NoKey = NoKey
  Jobs <- MCJobs
  JobTypes <- MCTwoTypes
  Workers <- MCWorkers
  DedupeKeys <- MCKeys
  MaxAttempts = 3
  BatchLimit = 1
  MaxCrashes = 1
SPECIFICATION FairQueueSpec
CHECK_DEADLOCK FALSE
INVARIANTS
  OneLiveJobPerKey
  FailuresCountOnce
  LeasesAreBounded
PROPERTIES
  SettledIsFinal
  LiveIsSettledUnlessOrphaned
