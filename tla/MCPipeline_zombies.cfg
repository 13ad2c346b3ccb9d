SPECIFICATION Spec
CONSTANTS
  HasDownload = FALSE
  HasDiarize = TRUE
  HasLlm = FALSE
  ForkingWorker = TRUE
  PromptRetry = FALSE
  Reapers <- NoReaper
  Workers = 2
  MaxGeneration = 3
  MaxAttempts = 2
  MaxFailures = 1
  MaxCrashes = 0
  MaxEnqueueFaults = 0
  MaxStoreFaults = 0
INVARIANTS
  NoMixedContext
  InputsOfOwnAttempt
  HashOfNewestAttempt
PROPERTIES
  StaleCallbacksAreInert
CHECK_DEADLOCK FALSE
