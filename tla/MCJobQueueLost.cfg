CONSTANTS
  j1 = j1
  j2 = j2
  w1 = w1
  w2 = w2
  k1 = k1
  NoWorker = NoWorker
  NoKey = NoKey
  Jobs <- MCOneJob
  JobTypes <- MCOneType
  Workers <- MCWorkers
  DedupeKeys <- MCKeys
  MaxAttempts = 2
  BatchLimit = 1
  MaxCrashes = 1
SPECIFICATION FairQueueSpec
CHECK_DEADLOCK FALSE
PROPERTY LiveIsSettled
