CONSTANTS
  r1 = r1 r2 = r2 r3 = r3 k1 = k1 k2 = k2 p1 = p1 p2 = p2
  Requests <- ThreeRequests
  Keys <- TwoKeys
  Passes <- TwoPasses
  NoKey = NoKey
  NoObject = NoObject
  CrashBound = 1
SPECIFICATION FairSpec
INVARIANTS ReadyIsStored NothingLeaks
PROPERTIES CompletedIsFinal PurgeEnds
CHECK_DEADLOCK FALSE
