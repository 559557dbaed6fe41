SPECIFICATION SpecEither
CONSTANTS
  Runs = {r1, r2}
  MaxSteps = 2
  NoState = NoState
  Calls = {c1, c2}
  MaxConcurrent = 2
  MaxRetries = 1
  PoolSize = 1
  QueueSize = 2
  MaxChunks = 4
  Outcomes = {x, y}
  MaxTurns = 4
  Sizes = {1, 4}
  SummarySizes = {1, 2}
  MaxNumber = 12
  ModelAnswers <- SomeResponses
  Texts = {s, t}
  Window = 2
  MaxDepth = 2
  MaxRuns = 2
  MaxTokens = 4
  WindowTokens = 6
  KeepRounds = 1
  MaxMessages = 6
CHECK_DEADLOCK FALSE
INVARIANT CancelNeverLost
