\* Two threads, waits that may end without a signal; deinit comes when mainLoop
\* has begun to run.
CONSTANTS
  NumThreads = 2
  SpuriousWakeups = TRUE
  MaxBatch = 1
  PromptDeinit = FALSE
SPECIFICATION LifeSpec
INVARIANTS
  ServerOutlivesLoop
  EventsOutliveWorkers
  NoWorkerAfterDestroy
PROPERTIES
  LoopStops
  QuietlyDown
\* The server ends when it has been destroyed.
CHECK_DEADLOCK FALSE
