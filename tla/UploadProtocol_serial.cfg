CONSTANTS
  x = x y = y t1 = t1 t2 = t2 k1 = k1 k2 = k2
  Keys <- TwoKeys
  NoKey = NoKey
  Tasks <- OneTask
  Chunks <- TwoChunks
  Hole = Hole
  Declared = 2
  MaxUploads = 2
  VersionBound = 6
  CrashBound = 2
SPECIFICATION FairSpec
INVARIANTS AcknowledgedBytesKept ObjectIsStored 
PROPERTIES VerificationEnds
