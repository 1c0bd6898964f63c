\* Two threads whose waits end by signals only: tasks, wakeups, refinement.
CONSTANTS
  NumThreads = 2
SPECIFICATION Spec
INVARIANTS
  NoHalfTask
PROPERTIES
  WokenWorkerRuns
  ImplementsWorkerPool
\* The threads may end after cthr_pool_destroy.
CHECK_DEADLOCK FALSE
