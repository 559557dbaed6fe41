SPECIFICATION Spec
CONSTANTS
  c1 = c1
  c2 = c2
  c3 = c3
  c4 = c4
  k1 = k1
  k2 = k2
  k3 = k3
  None = None
  Calls <- ThreeCalls
  Keys <- TwoKeys
  ThreadKeys <- OneThreadKey
  CacheTtl = 2
  MaxCacheSize = 1
  CleanupInterval = 2
SYMMETRY CallSymmetry
INVARIANTS RunsNeverOverlap
