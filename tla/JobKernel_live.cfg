CONSTANTS
  j1 = j1 j2 = j2 a1 = a1 p1 = p1 w1 = w1 w2 = w2 w3 = w3
  Jobs <- TwoJobs
  AssetOf <- SameAsset
  Assets <- OneAsset
  Projects <- OneProject
  ProjectOf <- InProjectOne
  Workers <- ThreeWorkers
  NoWorker = NoWorker
  NoJob = NoJob
  LeaseTicks = 1
  RetryTicks = 1
  MaxAttempts = 2
  MaxQueuedJobs = 1
  MaxLive = 1
  AttemptBound = 2
  BeatBound = 0
  CrashBound = 1
  StallBound = 1
  DeleteBound = 1
  StaleBound = 0
SPECIFICATION FairSpec
INVARIANTS LossesExceedPolicy AssetFollowsJobs
PROPERTIES EveryJobSettles ProcessingEnds
CHECK_DEADLOCK FALSE
