SPECIFICATION FairSpec
CONSTANTS
  Target = 4
  Modes <- BothModes
  CrashBound = 2
  DataBound = 2
INVARIANTS ServedDatabaseIsWhole ClosedAfterAwaited
PROPERTIES UpgradesAreBackedUp KeepsWakeups ServesAgain
CHECK_DEADLOCK FALSE
