SPECIFICATION BusySpec
CONSTANTS
  r1 = r1
  r2 = r2
  Requests <- TwoRequests
  NumProviders = 1
  MaxRetries = 1
  FailureThreshold = 2
  SuccessThreshold = 2
  RecoveryTimeout = 2
PROPERTIES RequestsEnd PrimaryProbed PrimaryRecovers
