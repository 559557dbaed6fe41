SPECIFICATION HSpec
CONSTANTS
  r1 = r1
  r2 = r2
  Requests <- TwoRequests
  NumProviders = 2
  MaxRetries = 1
  FailureThreshold = 2
  SuccessThreshold = 2
  RecoveryTimeout = 1
SYMMETRY RequestSymmetry
INVARIANTS BreakersOK EveryProviderExplained
PROPERTIES OpenAdmitsNobody PromisesKept
