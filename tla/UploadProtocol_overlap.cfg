CONSTANTS
  x = x y = y t1 = t1 t2 = t2 k1 = k1 k2 = k2
  Keys <- TwoKeys
  NoKey = NoKey
  Tasks <- TwoTasks
  Chunks <- TwoChunks
  Hole = Hole
  Declared = 1
  MaxUploads = 2
  VersionBound = 5
  CrashBound = 1
SYMMETRY Interchangeable
SPECIFICATION Spec
INVARIANTS ReservationsFollowUploads AnswersFollowUploads
PROPERTIES AcknowledgementsStand
