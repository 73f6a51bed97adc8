CONSTANTS
  e1 = e1 e2 = e2 e3 = e3 c1 = c1 c2 = c2
  Events <- ThreeEvents
  Unregistered <- Unhandled
  Consumers <- TwoConsumers
  NoOwner = NoOwner
  LeaseTicks = 1
  RetryTicks = 1
  MaxAttempts = 2
  BatchSize = 3
  Concurrency = 2
  MaxLive = 2
  AttemptBound = 3
  EndBound = 1
SYMMETRY Interchangeable
SPECIFICATION Spec
PROPERTIES FinalIsFinal
CHECK_DEADLOCK FALSE
