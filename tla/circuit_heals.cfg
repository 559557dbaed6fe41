SPECIFICATION SpecEither
CONSTANTS
  Requests = {r1, r2, r3}
  Skews = {0, 1}
  FailureThreshold = 2
  RecoveryTimeout = 2
  SuccessThreshold = 2
  Buffer = 1
  MaxTime = 5
  LimitKeys <- OneSession
  MaxRequests = 2
  ClockSkews = {0, 1}
  MaxInstant = 5
  RateWindow = 4
  Second = 2
  short = short
  long = long
  primary = primary
  fallback = fallback
  Askers = {r1, r2, r3}
  Prompts = {short, long}
  Sent <- Truncated
  Primary = primary
  Fallback = fallback
  MaxTock = 2
  Absent = Absent
  Ttl = 1
  MaxClears = 2
CHECK_DEADLOCK FALSE
SYMMETRY RequestSymmetry
PROPERTY HealsAfterTimeout
