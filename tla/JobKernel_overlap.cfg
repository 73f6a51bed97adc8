CONSTANTS
  j1 = j1 j2 = j2 a1 = a1 p1 = p1 w1 = w1 w2 = w2 w3 = w3
  Jobs <- OneJob
  AssetOf <- OnlyAsset
  Assets <- OneAsset
  Projects <- OneProject
  ProjectOf <- InProjectOne
  Workers <- TwoWorkers
  NoWorker = NoWorker
  NoJob = NoJob
  LeaseTicks = 2
  RetryTicks = 1
  MaxAttempts = 2
  MaxQueuedJobs = 1
  MaxLive = 2
  AttemptBound = 2
  BeatBound = 1
  CrashBound = 1
  StallBound = 1
  DeleteBound = 0
  StaleBound = 1
SPECIFICATION Spec
INVARIANTS StreamTellsStatus
PROPERTIES SettledByLatestClaim ImplementsStateMachine
CHECK_DEADLOCK FALSE
