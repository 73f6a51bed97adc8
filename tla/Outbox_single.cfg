CONSTANTS
  e1 = e1 e2 = e2 e3 = e3 c1 = c1 c2 = c2
  Events <- ThreeEvents
  Unregistered <- Unhandled
  Consumers <- TwoConsumers
  NoOwner = NoOwner
  LeaseTicks = 2
  RetryTicks = 1
  MaxAttempts = 2
  BatchSize = 2
  Concurrency = 1
  MaxLive = 1
  AttemptBound = 3
  EndBound = 1
SPECIFICATION FairSpec
INVARIANTS LossesExceedPolicy OneDeliveryOfTheClaim ShutdownFinishesClaims
PROPERTIES EveryEventSettles
CHECK_DEADLOCK FALSE
