SPECIFICATION FairSpecEither
CONSTANTS
  r1 = r1
  tracing = tracing
  cache = cache
  metrics = metrics
  safety = safety
  context = context
  Requests <- OneRequest
  Middlewares <- FiveMiddlewares
  Priority <- CodePriority
  Mandatory <- OnlySafety
  Caches <- OnlyCache
  Observers <- TracingAndMetrics
  Metrics = metrics
  Tracing = tracing
  Registered <- WithoutContext
  Errors <- SomeErrors
  MaxChunks = 2
  m1 = m1
  m2 = m2
  m3 = m3
  Tasks = {t1, t2}
  Nobody = Nobody
  Registrable <- ThreeNamed
  PriorityOf <- ByName
  Providers = 2
  OwnsProvider = TRUE
  Chunks = 3
CHECK_DEADLOCK FALSE
INVARIANTS MandatoryNeverSkipped EnteredAreInformed ObserversBalanced ReadyWhenStarted NothingLeftRunning StreamComplete
PROPERTIES OperationsEnd NoStreamLeftWaiting
