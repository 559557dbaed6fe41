SPECIFICATION SpecEither
CONSTANTS
  tenant = tenant
  other = other
  short = short
  long = long
  twin = twin
  primary = primary
  fallback = fallback
  Sessions = {s1, s2, s3}
  Calls = {c1, c2}
  Scopes = {tenant, other}
  Prompts = {short, long, twin}
  Contexts <- SomeContexts
  Sent <- Truncated
  Shown <- InKey
  Estimate <- PromptEstimate
  ReplyUsages <- SomeUsages
  NoReport = NoReport
  Providers = {primary, fallback}
  Primary = primary
  MaxTime = 2
  MaxEntries = 3
  Phases = {"request", "tool_call"}
  MaxSessions = 2
  MaxTimestamps = 3
  MaxClock = 2
  BufferSize = 2
  MaxAge = 1
  d = d
  x = x
  Characters = {d, x}
  Deltas <- SomeDeltas
  Mask <- MaskRuns
  MaxText = 5
  MaxCuts = 3
  MaxErrors = 1
  MaxRequests <- RateLimits
  RateWindow <- RateWindows
  MaxScopes = 1
  BudgetWindow = 1
  MaxPrompt = 2
  MaxCompletion = 1
  MaxTotal = 2
  MaxCost = 5
  Unlimited = Unlimited
  Cost <- TokenCost
  CacheSize = 1
  Ttl = 1
CHECK_DEADLOCK FALSE
PROPERTY ServedWithinTtl
