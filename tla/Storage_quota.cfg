SPECIFICATION Spec
CONSTANTS
  k1 = k1 k2 = k2
  Keys <- TwoKeys
  SizeOf <- Sizes
  c1 = c1 c2 = c2
  Calls <- TwoCalls
  Candidates <- Proposed
  Baseline <- Small
  NoLimit = NoLimit
  NoKey = NoKey
  MaxAssets = 2
  MaxNow = 1
SYMMETRY Interchangeable
INVARIANTS StorageWithinLimits OnePolicyInForce OneUploadPerKey
CHECK_DEADLOCK FALSE
